---- MODULE Spec2Model ----
(***************************************************************************)
(* Model of the scraper's task queue (scraper/queue.py) and of the         *)
(* resilience layer of the inference client (scraper/llm_client.py).       *)
(***************************************************************************)
EXTENDS Integers, Sequences, FiniteSets, TLC

\* ------------------------------------------------------------------------
\* Bounds of the model
\* ------------------------------------------------------------------------
MaxMsgs == 2
MaxBacklog == 3
NumProcs == 2
ConsumersPerProc == 1
NumCallers == 2
MaxTime == 4
TicksPerToken == 2
\* Settings of the inference client, scaled down
requests_per_minute == 2
MaxConcurrent == 2
max_retries == 2
base_backoff == 1
max_backoff == 2
circuit_breaker_threshold == 2
circuit_breaker_timeout == 2
BackoffUnit == 4
MaxBase == 2
MaxCap == 4
MaxSleeps == 3
scraper_max_retries == 1
MaxTasks == 2
MaxRepairs == 2
MaxAttempts == 3
NumFetchers == 2
MaxFetchRetries == 3
MaxDeliveries == 2
MaxLinks == 2
MaxDiscoveries == 2
NumWorkers == 2

\* ------------------------------------------------------------------------
\* Configuration (scraper/config.py)
\* ------------------------------------------------------------------------
prefetch_count == 1
RateLimitWait == 30
max_priority == 10
SnippetMax == 5000
LOW == 2
MEDIUM == 5
HIGH == 8
CRITICAL == 10

VARIABLES
    msgs,           \* messages published so far, in publish order
    mstate,         \* broker: message -> "ready" | "unacked" | "acked"
    holder,         \* broker: message -> consumer holding it unacknowledged
    tasks,          \* running process_message coroutines
    proc,           \* worker process -> "running" | "stopping" | "exited"
    chan,           \* worker process -> "open" | "closed" (self.channel)
    is_shutting_down, \* worker process -> module flag _is_shutting_down
    firstDelivery,  \* history: messages in the order of their first delivery
    backlog,        \* history: number of messages published before the first delivery
    last,           \* history: message -> how its latest delivery went
    now,            \* time.time(), in ticks
    tokens,         \* RateLimiter.tokens, in units of 1/TicksPerToken token
    last_refill,    \* RateLimiter.last_refill
    active_requests, \* RateLimiter.active_requests
    lock,           \* RateLimiter.lock: the caller holding the mutex
    max_concurrent, \* RateLimiter.max_concurrent (settings.vllm.max_concurrent_requests)
    sem,            \* RateLimiter.semaphore: free slots
    failures,       \* CircuitBreaker.failures
    last_failure_time, \* CircuitBreaker.last_failure_time
    is_open,        \* CircuitBreaker.is_open
    pc,             \* caller -> where it is in _execute_with_backoff
    attempt,        \* caller -> attempt of the retry loop
    wake,           \* caller -> earliest end of its asyncio.sleep
    result,         \* history: how the call that ended last ended
    admitted,       \* history: times of the admissions of the last minute
    consec,         \* history: recorded failures since the last recorded success
    probe,          \* history: the caller let through by the elapsed open timeout, its call not yet over
    bbase,          \* settings.vllm.base_backoff_seconds, in ticks of 1/BackoffUnit second
    bcap,           \* settings.vllm.max_backoff_seconds, in the same ticks
    delays,         \* the sleep times of one call that keeps failing, retry by retry
    econf,          \* settings.scraper: the extraction flags of the worker process
    etask,          \* the ScrapingTask process_task is working on
    epc,            \* where process_task is, and how its delivery ended
    html,           \* length of the page fetch_page returned, 0 for None or an empty page
    eresult,        \* the ExtractionResult in the making
    llm_runs,       \* history: runs of extract_from_page_llm for the task
    validator_runs, \* history: runs of validator.validate for the task
    log,            \* the output log: results appended by save_result
    repairq,        \* RepairTasks published to the repair queue
    ndone,          \* history: deliveries process_task has finished
    evisited,       \* visited set of the extraction process's DiscoveryAgent
    egets,          \* history: GETs fetch_page issued for the task
    rin,            \* the repair queue: messages ready for delivery
    rmsg,           \* the repair message delivered to RepairAgent.process_task
    rpc,            \* where the repair handler is, and how its delivery ended
    rsel,           \* new_selectors, as the inference client returned them
    rok,            \* what repair_selectors returned
    rpub,           \* history: tasks published for the delivery in hand
    extq,           \* ScrapingTasks the repair worker published to the extraction queue
    rserial,        \* history: repair messages published so far
    dtask,          \* the message delivered to DiscoveryAgent.process_task
    dpc,            \* where the discovery handler is, and how its delivery ended
    visited,        \* DiscoveryAgent.visited
    dfound,         \* links: what extract_links returned for the page
    dlinks,         \* the links of the page the loop has not come to yet
    to_discovery,   \* tasks published to the discovery queue for the delivery in hand
    to_extraction,  \* tasks published to the extraction queue for the delivery in hand
    dfetched,       \* history: fetch_page returned a page for the delivery in hand
    dn,             \* history: deliveries to the discovery handler
    spc,            \* where the supervisor (main, async_main, shutdown) is
    wstate,         \* worker -> state of its process
    sigterm,        \* workers with a SIGTERM sent and not yet delivered
    inflight,       \* workers with a handler running
    consumers,      \* workers that have started their consumers
    cancelled,      \* history: workers whose consumers were cancelled
    cut,            \* history: workers whose running handler was ended unfinished
    how,            \* history: worker -> what ended its process
    refused,        \* history: processes whose connection to the broker failed
    grace_over,     \* history: the joins of shutdown are over
    fmax,           \* settings.scraper.max_retries as fetch_page reads it
    fpc,            \* consumer -> where its call of fetch_page is
    furl,           \* consumer -> the locator it was called with
    fattempt,       \* consumer -> attempt of the retry loop
    fret,           \* consumer -> what its call returned
    fsleeps,        \* history: consumer -> the sleeps after a 429 in its call
    fgets           \* history: consumer -> GETs issued in its call

qvars == <<msgs, mstate, holder, tasks, proc, chan, is_shutting_down,
           firstDelivery, backlog, last>>

lvars == <<now, tokens, last_refill, active_requests, lock, max_concurrent, sem, failures,
           last_failure_time, is_open, pc, attempt, wake, result, admitted,
           consec, probe>>

bvars == <<bbase, bcap, delays>>

evars ==
    <<econf, etask, epc, html, eresult, llm_runs, validator_runs, log, repairq, ndone,
      evisited, egets>>

rvars == <<rin, rmsg, rpc, rsel, rok, rpub, extq, rserial>>

dvars == <<dtask, dpc, visited, dfound, dlinks, to_discovery, to_extraction, dfetched, dn>>

svars == <<spc, wstate, sigterm, inflight, consumers, cancelled, cut, how, refused, grace_over>>

fvars == <<fmax, fpc, furl, fattempt, fret, fsleeps, fgets>>

vars == <<qvars, lvars, bvars, evars, rvars, dvars, svars, fvars>>

\* What the steps of one component leave alone.
nonqueue == <<lvars, bvars, evars, rvars, dvars, svars, fvars>>
nonllm == <<qvars, max_concurrent, bvars, evars, rvars, dvars, svars, fvars>>
nonbackoff == <<qvars, lvars, evars, rvars, dvars, svars, fvars>>
nonextract == <<qvars, lvars, bvars, econf, rvars, dvars, svars, fvars>>
nonrepair == <<qvars, lvars, bvars, evars, dvars, svars, fvars>>
nondiscovery == <<qvars, lvars, bvars, evars, rvars, svars, fvars>>
nonsupervisor == <<qvars, lvars, bvars, evars, rvars, dvars, fvars>>
nonfetch ==
    <<qvars, lvars, bvars, evars, rvars, svars, fmax, dtask, dpc, dfound, dlinks,
      to_discovery, to_extraction, dfetched, dn>>

Procs == 1..NumProcs
Consumers == Procs \X (1..ConsumersPerProc)
ProcOf(c) == c[1]
NoConsumer == <<0, 0>>
Published == 1..Len(msgs)

\* ------------------------------------------------------------------------
\* QueueManager.declare_queues: every queue is durable and is declared with
\* the x-max-priority argument.
\* ------------------------------------------------------------------------
declare_queues_without_priority == [durable |-> TRUE, x_max_priority |-> <<>>]

declare_queues == [durable |-> TRUE, x_max_priority |-> <<max_priority>>]

\* ------------------------------------------------------------------------
\* QueueManager.publish_task: the priority of the message is the priority
\* argument when one is given, else the task's own priority for a
\* ScrapingTask, else 5.  The argument is <<>> (None) or <<p>>.
\* ------------------------------------------------------------------------
publish_task(task, priority) ==
    IF priority = <<>>
    THEN IF task.kind = "ScrapingTask" THEN task.priority ELSE 5
    ELSE priority[1]

\* Calls to publish_task the program makes: publish_discovery_task and
\* publish_extraction_task pass no priority (a ScrapingTask of priority
\* TaskPriority.CRITICAL here), publish_repair_task passes 8; a RepairTask
\* published without a priority gets 5.
PublishCalls ==
    { [task |-> [kind |-> "ScrapingTask", priority |-> 10], priority |-> <<>>],
      [task |-> [kind |-> "RepairTask", priority |-> 0], priority |-> <<>>],
      [task |-> [kind |-> "RepairTask", priority |-> 0], priority |-> <<8>>] }

\* ------------------------------------------------------------------------
\* The broker's delivery order for a queue: with x-max-priority the ready
\* message of highest priority (capped at the maximum) goes first, the oldest
\* among equals; without it the queue is plain FIFO.  A requeued message
\* returns to its original position.
\* ------------------------------------------------------------------------
BrokerPriority(m) ==
    IF declare_queues.x_max_priority = <<>> THEN 0
    ELSE IF msgs[m].priority > declare_queues.x_max_priority[1]
         THEN declare_queues.x_max_priority[1]
         ELSE msgs[m].priority

Ready == { m \in Published : mstate[m] = "ready" }

Before(m1, m2) ==
    \/ BrokerPriority(m1) > BrokerPriority(m2)
    \/ BrokerPriority(m1) = BrokerPriority(m2) /\ m1 < m2

HeadOfQueue(m) == m \in Ready /\ \A m2 \in Ready \ {m} : Before(m, m2)

UnackedOf(c) == { m \in Published : mstate[m] = "unacked" /\ holder[m] = c }

HeldBy(t) == mstate[t.m] = "unacked" /\ holder[t.m] = t.c

TasksOf(p) == { t \in tasks : ProcOf(t.c) = p }

\* ------------------------------------------------------------------------
\* Initial state: queues declared, every worker process connected and
\* consuming, nothing published.
\* ------------------------------------------------------------------------
QueueInit ==
    /\ msgs = <<>>
    /\ mstate = <<>>
    /\ holder = <<>>
    /\ tasks = {}
    /\ proc = [p \in Procs |-> "running"]
    /\ chan = [p \in Procs |-> "open"]
    /\ is_shutting_down = [p \in Procs |-> FALSE]
    /\ firstDelivery = <<>>
    /\ backlog = 0
    /\ last = <<>>

\* publish_task: the message is stored by the broker and becomes ready.
\* bound is the number of messages the specification lets be published.
Publish(call, bound) ==
    /\ UNCHANGED nonqueue
    /\ Len(msgs) < bound
    /\ msgs' = Append(msgs, [kind |-> call.task.kind,
                             priority |-> publish_task(call.task, call.priority)])
    /\ mstate' = Append(mstate, "ready")
    /\ holder' = Append(holder, NoConsumer)
    /\ last' = Append(last, "none")
    /\ UNCHANGED <<tasks, proc, chan, is_shutting_down, firstDelivery, backlog>>

\* Variant: the channel has no prefetch limit.
Deliver_without_qos(m, c) ==
    /\ UNCHANGED nonqueue
    /\ proc[ProcOf(c)] = "running"
    /\ chan[ProcOf(c)] = "open"
    /\ HeadOfQueue(m)
    /\ mstate' = [mstate EXCEPT ![m] = "unacked"]
    /\ holder' = [holder EXCEPT ![m] = c]
    /\ tasks' = tasks \cup {[c |-> c, m |-> m, pc |-> "handler", h |-> "running"]}
    /\ firstDelivery' = IF \E i \in 1..Len(firstDelivery) : firstDelivery[i] = m
                        THEN firstDelivery
                        ELSE Append(firstDelivery, m)
    /\ backlog' = IF firstDelivery = <<>> THEN Len(msgs) ELSE backlog
    /\ last' = [last EXCEPT ![m] =
                  CASE @ = "raised" -> "again_after_raise"
                    [] @ = "requeued_after_cancel" -> "again_after_cancel"
                    [] OTHER -> "none"]
    /\ UNCHANGED <<msgs, proc, chan, is_shutting_down>>

\* queue.consume(process_message, no_ack=False): the broker hands the head of
\* the queue to a consumer that has room under the prefetch count; the
\* client starts process_message for it.
Deliver(m, c) ==
    /\ UNCHANGED nonqueue
    /\ proc[ProcOf(c)] = "running"
    /\ chan[ProcOf(c)] = "open"
    /\ HeadOfQueue(m)
    /\ Cardinality(UnackedOf(c)) < prefetch_count
    /\ mstate' = [mstate EXCEPT ![m] = "unacked"]
    /\ holder' = [holder EXCEPT ![m] = c]
    /\ tasks' = tasks \cup {[c |-> c, m |-> m, pc |-> "handler", h |-> "running"]}
    /\ firstDelivery' = IF \E i \in 1..Len(firstDelivery) : firstDelivery[i] = m
                        THEN firstDelivery
                        ELSE Append(firstDelivery, m)
    /\ backlog' = IF firstDelivery = <<>> THEN Len(msgs) ELSE backlog
    /\ last' = [last EXCEPT ![m] =
                  CASE @ = "raised" -> "again_after_raise"
                    [] @ = "requeued_after_cancel" -> "again_after_cancel"
                    [] OTHER -> "none"]
    /\ UNCHANGED <<msgs, proc, chan, is_shutting_down>>

\* await callback(task_data) returns normally: process_message goes on to
\* message.ack().
HandlerReturn(t) ==
    /\ UNCHANGED nonqueue
    /\ t \in tasks /\ t.pc = "handler"
    /\ tasks' = (tasks \ {t}) \cup {[t EXCEPT !.pc = "ack", !.h = "ok"]}
    /\ UNCHANGED <<msgs, mstate, holder, proc, chan, is_shutting_down,
                   firstDelivery, backlog, last>>

\* Variant: the except Exception branch acknowledges instead of rejecting.
HandlerRaise_acks(t) ==
    /\ UNCHANGED nonqueue
    /\ t \in tasks /\ t.pc = "handler"
    /\ tasks' = (tasks \ {t}) \cup {[t EXCEPT !.pc = "ack", !.h = "raised"]}
    /\ last' = [last EXCEPT ![t.m] = IF HeldBy(t) THEN "raised" ELSE @]
    /\ UNCHANGED <<msgs, mstate, holder, proc, chan, is_shutting_down,
                   firstDelivery, backlog>>

\* await callback(task_data) raises an Exception: the except Exception branch
\* goes on to message.reject(requeue=True).
HandlerRaise(t) ==
    /\ UNCHANGED nonqueue
    /\ t \in tasks /\ t.pc = "handler"
    /\ tasks' = (tasks \ {t}) \cup {[t EXCEPT !.pc = "reject", !.h = "raised"]}
    /\ last' = [last EXCEPT ![t.m] = IF HeldBy(t) THEN "raised" ELSE @]
    /\ UNCHANGED <<msgs, mstate, holder, proc, chan, is_shutting_down,
                   firstDelivery, backlog>>

\* Variant: the except asyncio.CancelledError branch acknowledges.
HandlerCancelled_acks(t) ==
    /\ UNCHANGED nonqueue
    /\ t \in tasks /\ t.pc = "handler"
    /\ proc[ProcOf(t.c)] = "stopping"
    /\ tasks' = tasks \ {t}
    /\ mstate' = [mstate EXCEPT ![t.m] = IF HeldBy(t) THEN "acked" ELSE @]
    /\ last' = [last EXCEPT ![t.m] = IF HeldBy(t) THEN "cancelled" ELSE @]
    /\ UNCHANGED <<msgs, holder, proc, chan, is_shutting_down,
                   firstDelivery, backlog>>

\* The coroutine is cancelled while it awaits the handler: the
\* except asyncio.CancelledError branch neither acknowledges nor rejects.
HandlerCancelled(t) ==
    /\ UNCHANGED nonqueue
    /\ t \in tasks /\ t.pc = "handler"
    /\ proc[ProcOf(t.c)] = "stopping"
    /\ tasks' = tasks \ {t}
    /\ last' = [last EXCEPT ![t.m] = IF HeldBy(t) THEN "cancelled" ELSE @]
    /\ UNCHANGED <<msgs, mstate, holder, proc, chan, is_shutting_down,
                   firstDelivery, backlog>>

\* message.ack() on an open channel: the broker removes the message.
AckOk(t) ==
    /\ UNCHANGED nonqueue
    /\ t \in tasks /\ t.pc = "ack"
    /\ chan[ProcOf(t.c)] = "open"
    /\ HeldBy(t)
    /\ mstate' = [mstate EXCEPT ![t.m] = "acked"]
    /\ holder' = [holder EXCEPT ![t.m] = NoConsumer]
    /\ tasks' = tasks \ {t}
    /\ UNCHANGED <<msgs, proc, chan, is_shutting_down, firstDelivery, backlog, last>>

\* message.ack() on a closed channel raises: the exception is caught by the
\* except Exception branch, which goes on to message.reject(requeue=True).
AckError(t) ==
    /\ UNCHANGED nonqueue
    /\ t \in tasks /\ t.pc = "ack"
    /\ chan[ProcOf(t.c)] = "closed"
    /\ tasks' = (tasks \ {t}) \cup {[t EXCEPT !.pc = "reject"]}
    /\ UNCHANGED <<msgs, mstate, holder, proc, chan, is_shutting_down,
                   firstDelivery, backlog, last>>

\* The coroutine is cancelled while it awaits message.ack(): the
\* CancelledError is swallowed (directly when shutting down, by the outer
\* except asyncio.CancelledError branch otherwise); no acknowledgement.
AckCancelled(t) ==
    /\ UNCHANGED nonqueue
    /\ t \in tasks /\ t.pc = "ack"
    /\ proc[ProcOf(t.c)] = "stopping"
    /\ tasks' = tasks \ {t}
    /\ UNCHANGED <<msgs, mstate, holder, proc, chan, is_shutting_down,
                   firstDelivery, backlog, last>>

\* Variant: message.reject(requeue=False); the broker discards the message.
RejectOk_without_requeue(t) ==
    /\ UNCHANGED nonqueue
    /\ t \in tasks /\ t.pc = "reject"
    /\ chan[ProcOf(t.c)] = "open"
    /\ HeldBy(t)
    /\ mstate' = [mstate EXCEPT ![t.m] = "dropped"]
    /\ holder' = [holder EXCEPT ![t.m] = NoConsumer]
    /\ tasks' = tasks \ {t}
    /\ UNCHANGED <<msgs, proc, chan, is_shutting_down, firstDelivery, backlog, last>>

\* message.reject(requeue=True) on an open channel: the broker puts the
\* message back on the queue.
RejectOk(t) ==
    /\ UNCHANGED nonqueue
    /\ t \in tasks /\ t.pc = "reject"
    /\ chan[ProcOf(t.c)] = "open"
    /\ HeldBy(t)
    /\ mstate' = [mstate EXCEPT ![t.m] = "ready"]
    /\ holder' = [holder EXCEPT ![t.m] = NoConsumer]
    /\ tasks' = tasks \ {t}
    /\ UNCHANGED <<msgs, proc, chan, is_shutting_down, firstDelivery, backlog, last>>

\* message.reject(requeue=True) on a closed channel raises: except Exception:
\* pass.
RejectError(t) ==
    /\ UNCHANGED nonqueue
    /\ t \in tasks /\ t.pc = "reject"
    /\ chan[ProcOf(t.c)] = "closed"
    /\ tasks' = tasks \ {t}
    /\ UNCHANGED <<msgs, mstate, holder, proc, chan, is_shutting_down,
                   firstDelivery, backlog, last>>

\* The coroutine is cancelled while it awaits message.reject(): swallowed
\* when shutting down, re-raised out of process_message otherwise; no
\* rejection either way.
RejectCancelled(t) ==
    /\ UNCHANGED nonqueue
    /\ t \in tasks /\ t.pc = "reject"
    /\ proc[ProcOf(t.c)] = "stopping"
    /\ tasks' = tasks \ {t}
    /\ UNCHANGED <<msgs, mstate, holder, proc, chan, is_shutting_down,
                   firstDelivery, backlog, last>>

\* The broker's reaction to a closed channel: every message the channel's
\* consumers hold unacknowledged goes back to the queue.
RequeueUnacked(p) ==
    /\ mstate' = [m \in Published |->
                    IF mstate[m] = "unacked" /\ ProcOf(holder[m]) = p
                    THEN "ready" ELSE mstate[m]]
    /\ holder' = [m \in Published |->
                    IF mstate[m] = "unacked" /\ ProcOf(holder[m]) = p
                    THEN NoConsumer ELSE holder[m]]
    /\ last' = [m \in Published |->
                    IF mstate[m] = "unacked" /\ ProcOf(holder[m]) = p
                       /\ last[m] = "cancelled"
                    THEN "requeued_after_cancel" ELSE last[m]]

\* The worker process is interrupted: consume_tasks is cancelled and cancels
\* its consumer (no further delivery); the event loop then cancels the
\* process_message coroutines still running.  keepOne keeps a consumer for the
\* queue in the fleet.
StopProcess(p, keepOne) ==
    /\ UNCHANGED nonqueue
    /\ proc[p] = "running"
    /\ keepOne => \E q \in Procs \ {p} : proc[q] = "running" /\ chan[q] = "open"
    /\ proc' = [proc EXCEPT ![p] = "stopping"]
    /\ UNCHANGED <<msgs, mstate, holder, tasks, chan, is_shutting_down,
                   firstDelivery, backlog, last>>

\* The process ends once its coroutines have finished: the connection goes
\* away with it and the broker requeues what was left unacknowledged.
ProcessExit(p) ==
    /\ UNCHANGED nonqueue
    /\ proc[p] = "stopping"
    /\ TasksOf(p) = {}
    /\ proc' = [proc EXCEPT ![p] = "exited"]
    /\ chan' = [chan EXCEPT ![p] = "closed"]
    /\ RequeueUnacked(p)
    /\ UNCHANGED <<msgs, tasks, is_shutting_down, firstDelivery, backlog>>

\* QueueManager.close: sets _is_shutting_down and closes the connection.
Close(p, keepOne) ==
    /\ UNCHANGED nonqueue
    /\ proc[p] = "running"
    /\ chan[p] = "open"
    /\ keepOne => \E q \in Procs \ {p} : proc[q] = "running" /\ chan[q] = "open"
    /\ is_shutting_down' = [is_shutting_down EXCEPT ![p] = TRUE]
    /\ chan' = [chan EXCEPT ![p] = "closed"]
    /\ RequeueUnacked(p)
    /\ UNCHANGED <<msgs, tasks, proc, firstDelivery, backlog>>

\* ========================================================================
\* The inference client's resilience layer (scraper/llm_client.py)
\* ========================================================================
\* Time is counted in ticks of 1/TicksPerToken of the time the bucket takes
\* to refill one token, and tokens in units of 1/TicksPerToken token, so that
\* elapsed * (requests_per_minute / 60.0) is one unit per tick and a minute
\* is requests_per_minute * TicksPerToken ticks.
Min(a, b) == IF a < b THEN a ELSE b

Callers == 1..NumCallers
OneToken == TicksPerToken
BucketCap == requests_per_minute * TicksPerToken
Minute == requests_per_minute * TicksPerToken
NoCaller == 0

\* Variant: a refill that is not capped at the size of the bucket.
Refilled_uncapped ==
    tokens + (now - last_refill)

\* RateLimiter.acquire, lines 78-82 and 95-99: the bucket level after a
\* refill at the current time.
Refilled ==
    Min(BucketCap, tokens + (now - last_refill))

\* CircuitBreaker.can_attempt: closed, or open for longer than the timeout.
can_attempt_at_timeout == ~is_open \/ now - last_failure_time >= circuit_breaker_timeout

can_attempt == ~is_open \/ now - last_failure_time > circuit_breaker_timeout

\* LLMClient.__init__, RateLimiter.__init__, CircuitBreaker.__init__
LLMInit ==
    /\ now = 0
    /\ tokens = BucketCap
    /\ last_refill = 0
    /\ active_requests = 0
    /\ lock = NoCaller
    /\ max_concurrent \in 1..MaxConcurrent
    /\ sem = max_concurrent
    /\ failures = 0
    /\ last_failure_time = 0
    /\ is_open = FALSE
    /\ pc = [c \in Callers |-> "idle"]
    /\ attempt = [c \in Callers |-> 0]
    /\ wake = [c \in Callers |-> 0]
    /\ result = "none"
    /\ admitted = <<>>
    /\ consec = 0
    /\ probe = NoCaller

\* Variant: a success closes the breaker and keeps the failure count.
record_success_keeping_failures ==
    /\ failures' = failures
    /\ is_open' = FALSE
    /\ last_failure_time' = last_failure_time
    /\ consec' = 0

\* CircuitBreaker.record_success
record_success ==
    /\ failures' = 0
    /\ is_open' = FALSE
    /\ last_failure_time' = last_failure_time
    /\ consec' = 0

\* Variant: the breaker opens only above the threshold.
record_failure_above_threshold ==
    /\ failures' = failures + 1
    /\ last_failure_time' = now
    /\ is_open' = (is_open \/ failures + 1 > circuit_breaker_threshold)
    /\ consec' = Min(consec + 1, circuit_breaker_threshold + 1)

\* CircuitBreaker.record_failure
record_failure ==
    /\ failures' = failures + 1
    /\ last_failure_time' = now
    /\ is_open' = (is_open \/ failures + 1 >= circuit_breaker_threshold)
    /\ consec' = Min(consec + 1, circuit_breaker_threshold + 1)

\* The admissions of the last minute, with one more at the current time.
Admit == Append(admitted, now)

\* Variant: acquire lets the caller through on an empty bucket.
TakeTokenOrSleep_without_token(c, level) ==
    /\ last_refill' = now
    /\ tokens' = IF level >= OneToken THEN level - OneToken ELSE level
    /\ active_requests' = active_requests + 1
    /\ lock' = NoCaller
    /\ pc' = [pc EXCEPT ![c] = "call"]
    /\ attempt' = [attempt EXCEPT ![c] = 0]
    /\ wake' = [wake EXCEPT ![c] = 0]
    /\ admitted' = Admit

\* RateLimiter.acquire, lines 84-103, from the while loop on, with the bucket
\* at level: with a token in the bucket the caller debits it, leaves the
\* mutex and is admitted; without, it sleeps for the missing part of a token,
\* holding the mutex.
TakeTokenOrSleep(c, level) ==
    /\ last_refill' = now
    /\ IF level >= OneToken
       THEN /\ tokens' = level - OneToken
            /\ active_requests' = active_requests + 1
            /\ lock' = NoCaller
            /\ pc' = [pc EXCEPT ![c] = "call"]
            /\ attempt' = [attempt EXCEPT ![c] = 0]
            /\ wake' = [wake EXCEPT ![c] = 0]
            /\ admitted' = Admit
       ELSE /\ tokens' = level
            /\ active_requests' = active_requests
            /\ lock' = c
            /\ pc' = [pc EXCEPT ![c] = "token_sleep"]
            /\ attempt' = attempt
            /\ wake' = [wake EXCEPT ![c] = now + (OneToken - level)]
            /\ admitted' = admitted

\* RateLimiter.acquire, line 76: async with self.lock goes straight in when
\* the mutex is free and waits for it otherwise.
EnterLock(c) ==
    IF lock = NoCaller
    THEN TakeTokenOrSleep(c, Refilled)
    ELSE /\ pc' = [pc EXCEPT ![c] = "lock_wait"]
         /\ UNCHANGED <<tokens, last_refill, active_requests, lock, attempt,
                        wake, admitted>>

\* Variant: acquire does not wait for a concurrency slot.
EnterSemaphore_unbounded(c) == sem' = sem - 1 /\ EnterLock(c)

\* RateLimiter.acquire, line 74: the semaphore is taken at once when it has a
\* slot; the caller waits for one otherwise.
EnterSemaphore(c) ==
    IF sem > 0
    THEN sem' = sem - 1 /\ EnterLock(c)
    ELSE /\ pc' = [pc EXCEPT ![c] = "sem_wait"]
         /\ UNCHANGED <<sem, tokens, last_refill, active_requests, lock, attempt,
                        wake, admitted>>

\* LLMClient._execute_with_backoff is called, lines 133-140: the breaker's
\* admission check, then rate_limiter.acquire() up to its first suspension.
StartCall(c) ==
    /\ UNCHANGED nonllm
    /\ pc[c] = "idle"
    /\ IF can_attempt
       THEN /\ is_open' = FALSE
            /\ failures' = IF is_open THEN 0 ELSE failures
            /\ probe' = IF is_open THEN c ELSE probe
            /\ EnterSemaphore(c)
            /\ UNCHANGED <<now, last_failure_time, result, consec>>
       ELSE /\ result' = "breaker_open"
            /\ UNCHANGED <<now, tokens, last_refill, active_requests, lock, sem,
                           failures, last_failure_time, is_open, pc, attempt,
                           wake, admitted, consec, probe>>

\* A slot of the semaphore has come free for a waiting caller.
SemAcquire(c) ==
    /\ UNCHANGED nonllm
    /\ pc[c] = "sem_wait"
    /\ sem > 0
    /\ sem' = sem - 1
    /\ EnterLock(c)
    /\ UNCHANGED <<now, failures, last_failure_time, is_open, result, consec, probe>>

\* The mutex has come free for a waiting caller.
LockAcquire(c) ==
    /\ UNCHANGED nonllm
    /\ pc[c] = "lock_wait"
    /\ lock = NoCaller
    /\ TakeTokenOrSleep(c, Refilled)
    /\ UNCHANGED <<now, sem, failures, last_failure_time, is_open, result, consec, probe>>

\* asyncio.sleep(wait_time) inside acquire is over: refill and test again.
TokenWake(c) ==
    /\ UNCHANGED nonllm
    /\ pc[c] = "token_sleep"
    /\ now >= wake[c]
    /\ TakeTokenOrSleep(c, Refilled)
    /\ UNCHANGED <<now, sem, failures, last_failure_time, is_open, result, consec, probe>>

\* Variant: release counts the request out and keeps its slot.
release_keeping_slot ==
    /\ active_requests' = active_requests - 1
    /\ sem' = sem

\* RateLimiter.release
release ==
    /\ active_requests' = active_requests - 1
    /\ sem' = sem + 1

\* Variant: release also gives the token back.
EndCall_returning_token(c, outcome) ==
    /\ pc' = [pc EXCEPT ![c] = "idle"]
    /\ result' = outcome
    /\ release
    /\ tokens' = Min(BucketCap, tokens + OneToken)
    /\ attempt' = [attempt EXCEPT ![c] = 0]
    /\ probe' = IF probe = c THEN NoCaller ELSE probe
    /\ UNCHANGED <<now, last_refill, lock, wake, admitted>>

\* _execute_with_backoff returns or raises after acquire: the finally clause
\* releases the slot.
EndCall(c, outcome) ==
    /\ pc' = [pc EXCEPT ![c] = "idle"]
    /\ result' = outcome
    /\ release
    /\ attempt' = [attempt EXCEPT ![c] = 0]
    /\ probe' = IF probe = c THEN NoCaller ELSE probe
    /\ UNCHANGED <<now, tokens, last_refill, lock, wake, admitted>>

\* await coro() returns: record_success and return the result.
CallSucceeds(c) ==
    /\ UNCHANGED nonllm
    /\ pc[c] = "call"
    /\ record_success
    /\ EndCall(c, "ok")

\* extract_structured_data and repair_selectors: the executor returns a
\* completion that json.loads cannot parse; the JSONDecodeError is raised to
\* the caller after _execute_with_backoff has returned.
CallReturnsBadJson(c) ==
    /\ UNCHANGED nonllm
    /\ pc[c] = "call"
    /\ record_success
    /\ EndCall(c, "json_error")

\* await coro() raises an error that is not retryable, or a retryable one on
\* the last attempt: record_failure and re-raise.
CallFails(c, retryable) ==
    /\ UNCHANGED nonllm
    /\ pc[c] = "call"
    /\ ~retryable \/ attempt[c] = max_retries - 1
    /\ record_failure
    /\ EndCall(c, "error")

\* min(base_backoff_seconds * 2 ** attempt, max_backoff_seconds)
BackoffOf(base, cap, k) == Min(base * 2^k, cap)

Backoff(k) == BackoffOf(base_backoff, max_backoff, k)

\* Variant: a jitter of a half of the backoff.
SleepTimesOf_wide(base, cap, k) ==
    { d \in 0..(2 * cap) : BackoffOf(base, cap, k) <= 2 * d /\ 2 * d <= 3 * BackoffOf(base, cap, k) }

\* backoff + backoff * random.uniform(-0.25, 0.25), in whole ticks
SleepTimesOf(base, cap, k) ==
    { d \in 0..(2 * cap) : 3 * BackoffOf(base, cap, k) <= 4 * d /\ 4 * d <= 5 * BackoffOf(base, cap, k) }

SleepTimes(k) == SleepTimesOf(base_backoff, max_backoff, k)

\* Variant: every failed attempt is recorded against the breaker.
CallRetries_recording(c, d) ==
    /\ UNCHANGED nonllm
    /\ pc[c] = "call"
    /\ attempt[c] < max_retries - 1
    /\ d \in SleepTimes(attempt[c])
    /\ record_failure
    /\ pc' = [pc EXCEPT ![c] = "backoff"]
    /\ wake' = [wake EXCEPT ![c] = now + d]
    /\ UNCHANGED <<now, tokens, last_refill, active_requests, lock, sem,
                   attempt, result, admitted, probe>>

\* await coro() raises a retryable error before the last attempt: sleep for
\* the backoff, then try again.
CallRetries(c, d) ==
    /\ UNCHANGED nonllm
    /\ pc[c] = "call"
    /\ attempt[c] < max_retries - 1
    /\ d \in SleepTimes(attempt[c])
    /\ pc' = [pc EXCEPT ![c] = "backoff"]
    /\ wake' = [wake EXCEPT ![c] = now + d]
    /\ UNCHANGED <<now, tokens, last_refill, active_requests, lock, sem, failures,
                   last_failure_time, is_open, attempt, result, admitted, consec, probe>>

\* asyncio.sleep(sleep_time) is over: the next attempt.
BackoffOver(c) ==
    /\ UNCHANGED nonllm
    /\ pc[c] = "backoff"
    /\ now >= wake[c]
    /\ pc' = [pc EXCEPT ![c] = "call"]
    /\ attempt' = [attempt EXCEPT ![c] = attempt[c] + 1]
    /\ wake' = [wake EXCEPT ![c] = 0]
    /\ UNCHANGED <<now, tokens, last_refill, active_requests, lock, sem, failures,
                   last_failure_time, is_open, result, admitted, consec, probe>>

\* Variant: a cancellation during the call counts as a failure of the call.
Cancel_recording_failure(c) ==
    /\ UNCHANGED nonllm
    /\ pc[c] \in {"sem_wait", "lock_wait", "token_sleep", "call", "backoff"}
    /\ pc' = [pc EXCEPT ![c] = "idle"]
    /\ result' = "cancelled"
    /\ lock' = IF pc[c] = "token_sleep" THEN NoCaller ELSE lock
    /\ IF pc[c] \in {"call", "backoff"}
       THEN release /\ record_failure
       ELSE UNCHANGED <<active_requests, sem, failures, last_failure_time,
                        is_open, consec>>
    /\ attempt' = [attempt EXCEPT ![c] = 0]
    /\ wake' = [wake EXCEPT ![c] = 0]
    /\ probe' = IF probe = c THEN NoCaller ELSE probe
    /\ UNCHANGED <<now, tokens, last_refill, admitted>>

\* The caller is cancelled (the extraction worker's wait_for timeout, or its
\* consumer stopping) while suspended.  Waiting for the semaphore it holds
\* nothing; waiting for the mutex it holds a slot that nothing releases;
\* asleep in acquire it holds a slot and the mutex, and async with releases
\* the mutex only; after acquire the finally clause releases the slot.
Cancel(c) ==
    /\ UNCHANGED nonllm
    /\ pc[c] \in {"sem_wait", "lock_wait", "token_sleep", "call", "backoff"}
    /\ pc' = [pc EXCEPT ![c] = "idle"]
    /\ result' = "cancelled"
    /\ lock' = IF pc[c] = "token_sleep" THEN NoCaller ELSE lock
    /\ IF pc[c] \in {"call", "backoff"}
       THEN release
       ELSE UNCHANGED <<active_requests, sem>>
    /\ attempt' = [attempt EXCEPT ![c] = 0]
    /\ wake' = [wake EXCEPT ![c] = 0]
    /\ probe' = IF probe = c THEN NoCaller ELSE probe
    /\ UNCHANGED <<now, tokens, last_refill, failures, last_failure_time, is_open,
                   admitted, consec>>

\* Time passes; admissions older than a minute leave the history.
Tick ==
    /\ UNCHANGED nonllm
    /\ now < MaxTime
    /\ now' = now + 1
    /\ admitted' = SelectSeq(admitted, LAMBDA t : t > now + 1 - Minute)
    /\ UNCHANGED <<tokens, last_refill, active_requests, lock, sem, failures,
                   last_failure_time, is_open, pc, attempt, wake, result, consec, probe>>

\* ------------------------------------------------------------------------
\* The retry delays of _execute_with_backoff on their own, in ticks fine
\* enough for the jitter, for any setting of base and maximum backoff.
\* ------------------------------------------------------------------------
BackoffInit ==
    /\ bbase = BackoffUnit * base_backoff
    /\ bcap = BackoffUnit * max_backoff
    /\ delays = <<>>

BackoffSettings ==
    /\ bbase \in { BackoffUnit * i : i \in 1..MaxBase }
    /\ bcap \in { BackoffUnit * i : i \in 1..MaxCap }
    /\ delays = <<>>

\* One more retryable error of the same call: the sleep before the retry
\* number Len(delays).
RetrySleep(d) ==
    /\ Len(delays) < MaxSleeps
    /\ d \in SleepTimesOf(bbase, bcap, Len(delays))
    /\ delays' = Append(delays, d)
    /\ UNCHANGED <<nonbackoff, bbase, bcap>>

\* The call is over; the next call starts its retry loop at attempt 0.
NextCall ==
    /\ delays # <<>>
    /\ delays' = <<>>
    /\ UNCHANGED <<nonbackoff, bbase, bcap>>

BackoffNext ==
    \/ \E d \in 0..(2 * BackoffUnit * MaxCap) : RetrySleep(d)
    \/ NextCall

\* ------------------------------------------------------------------------
\* The extraction worker: ExtractionAgent.process_task as the handler of the
\* extraction queue (scraper/workers/extraction_worker.py)
\* ------------------------------------------------------------------------
Urls == {"www.transfermarkt.com/a", "example.org/a"}
PageTypes == {"player_profile", "league_index"}
RetryCounts == 0..scraper_max_retries
HtmlLens == {SnippetMax - 1, SnippetMax, SnippetMax + 1}
NoTask == [url |-> "", page_type |-> "", retry_count |-> 0]
NoResult ==
    [success |-> FALSE, url |-> "", page_type |-> "", error |-> "", extraction_backend |-> "",
     validation |-> "none"]
ScrapingTasks == [url : Urls, page_type : PageTypes, retry_count : RetryCounts]

\* ExtractionAgent.is_transfermarkt_url
is_transfermarkt_url(url) == url \in {"www.transfermarkt.com/a"}

\* ExtractionAgent.should_use_bs_for_page_type
should_use_bs_for_page_type(page_type) ==
    IF ~econf.use_bs_extractors THEN FALSE
    ELSE IF econf.use_bs_extractors_for # {} THEN page_type \in econf.use_bs_extractors_for
    ELSE TRUE

\* The ExtractionResult an extractor returns: the error is kept only for a
\* failure.
ExtractionResult(success, error, backend) ==
    [success |-> success, url |-> etask.url, page_type |-> etask.page_type,
     error |-> IF success THEN "" ELSE error, extraction_backend |-> backend,
     validation |-> "none"]

\* process_task, lines 577-584: the RepairTask built for a failed result.
RepairTask(task, res, page) ==
    [url |-> task.url, page_type |-> task.page_type,
     html_snippet |-> Min(page, SnippetMax),
     error_message |-> IF res.error = "" THEN "Unknown error" ELSE res.error,
     original_task |-> task]

\* The settings of scraper/config.py as shipped.
ExtractInit ==
    /\ econf = [use_bs_extractors |-> FALSE, use_bs_extractors_for |-> {},
                bs_fallback_to_llm |-> TRUE, enable_llm_validation |-> TRUE]
    /\ etask = NoTask
    /\ epc = "idle"
    /\ html = 0
    /\ eresult = NoResult
    /\ llm_runs = 0
    /\ validator_runs = 0
    /\ log = <<>>
    /\ repairq = <<>>
    /\ ndone = 0
    /\ evisited = {}
    /\ egets = 0

\* Any setting of the extraction flags.
ExtractSettings ==
    /\ econf \in [use_bs_extractors : BOOLEAN, use_bs_extractors_for : SUBSET PageTypes,
                  bs_fallback_to_llm : BOOLEAN, enable_llm_validation : BOOLEAN]
    /\ etask = NoTask
    /\ epc = "idle"
    /\ html = 0
    /\ eresult = NoResult
    /\ llm_runs = 0
    /\ validator_runs = 0
    /\ log = <<>>
    /\ repairq = <<>>
    /\ ndone = 0
    /\ evisited = {}
    /\ egets = 0

\* process_task starts on a task, in a process whose DiscoveryAgent has
\* fetched the locators of seen, and awaits discovery.fetch_page.
ProcessTaskStarts(task, seen) ==
    /\ epc \in {"idle", "acked", "rejected"}
    /\ etask' = task
    /\ epc' = "fetch"
    /\ html' = 0
    /\ eresult' = NoResult
    /\ llm_runs' = 0
    /\ validator_runs' = 0
    /\ evisited' = seen
    /\ egets' = 0
    /\ UNCHANGED <<nonextract, log, repairq, ndone>>

\* A message of the extraction queue is delivered to the process that
\* handled the deliveries before it.
TaskDelivered(task) ==
    /\ ndone < MaxTasks
    /\ ProcessTaskStarts(task, evisited)

\* fetch_page, lines 79-82: the locator is in the visited set, and fetch_page
\* returns None without a GET; process_task returns at once.
FetchSkipped ==
    /\ epc = "fetch"
    /\ etask.url \in evisited
    /\ epc' = "returned"
    /\ UNCHANGED <<nonextract, evisited, egets, etask, html, eresult, llm_runs, validator_runs,
                   log, repairq, ndone>>

\* fetch_page issues its GETs and returns None (every attempt failed) or an
\* empty page: process_task returns at once.  The locator is in the visited
\* set by then when an attempt was answered 200 (marked).
FetchFails(marked) ==
    /\ epc = "fetch"
    /\ etask.url \notin evisited
    /\ epc' = "returned"
    /\ egets' = 1
    /\ evisited' = IF marked THEN evisited \cup {etask.url} ELSE evisited
    /\ UNCHANGED <<nonextract, etask, html, eresult, llm_runs, validator_runs, log, repairq, ndone>>

\* fetch_page returns the page and has added the locator to the visited
\* set: extract_from_page routes to the deterministic or to the generative
\* extractor.
FetchOk(n) ==
    /\ epc = "fetch"
    /\ etask.url \notin evisited
    /\ html' = n
    /\ egets' = 1
    /\ evisited' = evisited \cup {etask.url}
    /\ epc' = IF is_transfermarkt_url(etask.url) /\ should_use_bs_for_page_type(etask.page_type)
              THEN "bs" ELSE "llm"
    /\ UNCHANGED <<nonextract, etask, eresult, llm_runs, validator_runs, log, repairq, ndone>>

\* extract_from_page_bs has parsed the page or failed: a success goes to
\* the validator when enable_llm_validation is set; a failure is returned
\* and falls back to the generative extractor when bs_fallback_to_llm is
\* set; any other result is final.
BsReturns(success, error) ==
    /\ epc = "bs"
    /\ eresult' = ExtractionResult(success, error, "bs")
    /\ epc' = IF success /\ econf.enable_llm_validation THEN "validate"
              ELSE IF ~success /\ econf.bs_fallback_to_llm THEN "llm" ELSE "save"
    /\ UNCHANGED <<nonextract, evisited, egets, etask, html, llm_runs, validator_runs, log, repairq, ndone>>

\* Variant: a report that asks for review fails the result.
ValidatorReturns_blocking(report) ==
    /\ epc = "validate"
    /\ eresult' = [eresult EXCEPT !.validation = report,
                                  !.success = (report # "needs_review")]
    /\ validator_runs' = validator_runs + 1
    /\ epc' = "save"
    /\ UNCHANGED <<nonextract, evisited, egets, etask, html, llm_runs, log, repairq, ndone>>

\* validator.validate returns its report: it is attached to the result.
ValidatorReturns(report) ==
    /\ epc = "validate"
    /\ eresult' = [eresult EXCEPT !.validation = report]
    /\ validator_runs' = validator_runs + 1
    /\ epc' = "save"
    /\ UNCHANGED <<nonextract, evisited, egets, etask, html, llm_runs, log, repairq, ndone>>

\* validator.validate raises: the exception is logged and the result is
\* returned as it is.
ValidatorRaises ==
    /\ epc = "validate"
    /\ validator_runs' = validator_runs + 1
    /\ epc' = "save"
    /\ UNCHANGED <<nonextract, evisited, egets, etask, html, eresult, llm_runs, log, repairq, ndone>>

\* Variant: the fallback marks the result of the deterministic extractor
\* and returns it.
LlmReturns_keeping_bs_result(success, error) ==
    /\ epc = "llm"
    /\ eresult' = IF eresult = NoResult
                  THEN ExtractionResult(success, error, "llm")
                  ELSE [eresult EXCEPT !.extraction_backend = "bs_fallback_llm"]
    /\ llm_runs' = llm_runs + 1
    /\ epc' = "save"
    /\ UNCHANGED <<nonextract, evisited, egets, etask, html, validator_runs, log, repairq, ndone>>

\* extract_from_page_llm returns: its result is the result, marked
\* bs_fallback_llm when it ran as the fallback.
LlmReturns(success, error) ==
    /\ epc = "llm"
    /\ eresult' = ExtractionResult(success, error,
                     IF eresult = NoResult THEN "llm" ELSE "bs_fallback_llm")
    /\ llm_runs' = llm_runs + 1
    /\ epc' = "save"
    /\ UNCHANGED <<nonextract, evisited, egets, etask, html, validator_runs, log, repairq, ndone>>

\* Variant: a failed result goes to repair whatever the retry count.
SaveResult_always_repairing ==
    /\ epc = "save"
    /\ log' = Append(log, eresult)
    /\ epc' = IF ~eresult.success THEN "publish" ELSE "returned"
    /\ UNCHANGED <<nonextract, evisited, egets, etask, html, eresult, llm_runs, validator_runs, repairq, ndone>>

\* save_result appends the result to the log; process_task then goes on to
\* publish a RepairTask for a failure below the retry limit and returns
\* otherwise.
SaveResult ==
    /\ epc = "save"
    /\ log' = Append(log, eresult)
    /\ epc' = IF ~eresult.success /\ etask.retry_count < scraper_max_retries
              THEN "publish" ELSE "returned"
    /\ UNCHANGED <<nonextract, evisited, egets, etask, html, eresult, llm_runs, validator_runs, repairq, ndone>>

\* save_result raises (the log cannot be written): process_task raises.
SaveRaises ==
    /\ epc = "save"
    /\ epc' = "raised"
    /\ UNCHANGED <<nonextract, evisited, egets, etask, html, eresult, llm_runs, validator_runs, log, repairq, ndone>>

\* publish_repair_task
PublishRepair ==
    /\ epc = "publish"
    /\ repairq' = Append(repairq, RepairTask(etask, eresult, html))
    /\ epc' = "returned"
    /\ UNCHANGED <<nonextract, evisited, egets, etask, html, eresult, llm_runs, validator_runs, log, ndone>>

\* process_task returned: process_message acknowledges the delivery.
TaskAcked ==
    /\ epc = "returned"
    /\ epc' = "acked"
    /\ ndone' = ndone + 1
    /\ UNCHANGED <<nonextract, evisited, egets, etask, html, eresult, llm_runs, validator_runs, log, repairq>>

\* process_task raised: process_message rejects the delivery with requeue.
TaskRejected ==
    /\ epc = "raised"
    /\ epc' = "rejected"
    /\ ndone' = ndone + 1
    /\ UNCHANGED <<nonextract, evisited, egets, etask, html, eresult, llm_runs, validator_runs, log, repairq>>

\* str(e) of an exception of the parsers or of the population of the typed
\* models: some text, or none for an exception without a message.
ExtractErrors == {"error", ""}

\* The text of the exception _execute_with_backoff raises while the breaker
\* is open.
BreakerOpenError == "Circuit breaker is open"

\* str(e) of what extract_from_page_llm catches.
LlmErrors == ExtractErrors \cup {BreakerOpenError}

ValidationReports == {"clean", "warnings", "needs_review"}

ExtractNext ==
    \/ \E task \in ScrapingTasks : TaskDelivered(task)
    \/ FetchSkipped
    \/ \E marked \in BOOLEAN : FetchFails(marked)
    \/ \E n \in HtmlLens : FetchOk(n)
    \/ \E success \in BOOLEAN, error \in ExtractErrors : BsReturns(success, error)
    \/ \E report \in ValidationReports : ValidatorReturns(report)
    \/ ValidatorRaises
    \/ \E success \in BOOLEAN, error \in LlmErrors : LlmReturns(success, error)
    \/ SaveResult
    \/ SaveRaises
    \/ PublishRepair
    \/ TaskAcked
    \/ TaskRejected

LLMNext ==
    \/ \E c \in Callers : StartCall(c)
    \/ \E c \in Callers : SemAcquire(c)
    \/ \E c \in Callers : LockAcquire(c)
    \/ \E c \in Callers : TokenWake(c)
    \/ \E c \in Callers : CallSucceeds(c)
    \/ \E c \in Callers : CallReturnsBadJson(c)
    \/ \E c \in Callers, retryable \in BOOLEAN : CallFails(c, retryable)
    \/ \E c \in Callers, d \in 0..(2 * max_backoff) : CallRetries(c, d)
    \/ \E c \in Callers : BackoffOver(c)
    \/ \E c \in Callers : Cancel(c)
    \/ Tick

Max(a, b) == IF a > b THEN a ELSE b

\* The client constructed when the clock reads MaxTime: the breaker's last
\* failure time of 0.0 is further back than its timeout.
LLMInitAtHorizon ==
    /\ now = MaxTime
    /\ tokens = BucketCap
    /\ last_refill = now
    /\ active_requests = 0
    /\ lock = NoCaller
    /\ max_concurrent \in 1..MaxConcurrent
    /\ sem = max_concurrent
    /\ failures = 0
    /\ last_failure_time = now - circuit_breaker_timeout - 1
    /\ is_open = FALSE
    /\ pc = [c \in Callers |-> "idle"]
    /\ attempt = [c \in Callers |-> 0]
    /\ wake = [c \in Callers |-> 0]
    /\ result = "none"
    /\ admitted = <<>>
    /\ consec = 0
    /\ probe = NoCaller

\* Time passes with the clock at MaxTime: the origin of time moves on by one
\* tick, which leaves every difference the code computes as it is.  A last
\* refill older than the bucket takes to fill and a last failure older than
\* the breaker's timeout are kept at that age.
TickAtHorizon ==
    /\ UNCHANGED nonllm
    /\ now = MaxTime
    /\ now' = now
    /\ last_refill' = Max(last_refill - 1, now - BucketCap)
    /\ last_failure_time' = Max(last_failure_time - 1, now - circuit_breaker_timeout - 1)
    /\ wake' = [c \in Callers |-> Max(wake[c] - 1, 0)]
    /\ admitted' = LET kept == SelectSeq(admitted, LAMBDA t : t > now + 1 - Minute)
                   IN  [i \in DOMAIN kept |-> kept[i] - 1]
    /\ UNCHANGED <<tokens, active_requests, lock, sem, failures, is_open, pc, attempt,
                   result, consec, probe>>

\* The inference client with no caller cancelled and every call over at its
\* first attempt, with or without an error: a retry only keeps the slot of
\* the call for longer.
LLMLiveNext ==
    \/ \E c \in Callers : StartCall(c)
    \/ \E c \in Callers : SemAcquire(c)
    \/ \E c \in Callers : LockAcquire(c)
    \/ \E c \in Callers : TokenWake(c)
    \/ \E c \in Callers : CallSucceeds(c)
    \/ \E c \in Callers : CallFails(c, FALSE)
    \/ TickAtHorizon

\* Time advances; a coroutine whose sleep is over goes on; an admitted call
\* comes to an end; and a caller waiting for the semaphore or the mutex gets
\* it after it has come free often enough, the waiters of asyncio's
\* primitives being woken in the order they came.
LLMFairness ==
    /\ WF_vars(TickAtHorizon)
    /\ \A c \in Callers :
          /\ WF_vars(TokenWake(c))
          /\ WF_vars(CallSucceeds(c) \/ CallFails(c, FALSE))
          /\ SF_vars(SemAcquire(c))
          /\ SF_vars(LockAcquire(c))

\* ------------------------------------------------------------------------
\* The repair worker: RepairAgent.process_task as the handler of the repair
\* queue (scraper/workers/repair_worker.py)
\* ------------------------------------------------------------------------
Priorities == {LOW, MEDIUM, HIGH, CRITICAL}
Selectors == {"div.a", "td.b"}

\* ScrapingTask.metadata: a dictionary, here empty or with the key the
\* discovery worker sets.
NoMetadata == [k \in {} |-> ""]
Metadatas == {NoMetadata, [discovered_from |-> "www.transfermarkt.com"]}

\* The tasks of the crawl a RepairTask can be about.
FreshTasks ==
    [url : Urls, page_type : PageTypes, priority : Priorities,
     metadata : Metadatas, retry_count : RetryCounts]

NoRepairMsg == [id |-> 0, valid |-> FALSE, deliveries |-> 0]

\* {**original.metadata, "repaired": True, "suggested_selectors": new_selectors}
RepairedMetadata(metadata, new_selectors) ==
    [k \in DOMAIN metadata \cup {"repaired", "suggested_selectors"} |->
        IF k = "repaired" THEN "True"
        ELSE IF k = "suggested_selectors" THEN new_selectors
        ELSE metadata[k]]

\* Variant: the retry task keeps the retry count of the original.
RetryTask_same_count(original, new_selectors) ==
    [url |-> original.url, page_type |-> original.page_type,
     priority |-> original.priority,
     metadata |-> RepairedMetadata(original.metadata, new_selectors),
     retry_count |-> original.retry_count]

\* retry_task of repair_selectors.
RetryTask(original, new_selectors) ==
    [url |-> original.url, page_type |-> original.page_type,
     priority |-> original.priority,
     metadata |-> RepairedMetadata(original.metadata, new_selectors),
     retry_count |-> original.retry_count + 1]

RepairInit ==
    /\ rin = <<>>
    /\ rmsg = NoRepairMsg
    /\ rpc = "idle"
    /\ rsel = ""
    /\ rok = FALSE
    /\ rpub = 0
    /\ extq = <<>>
    /\ rserial = 0

\* publish_repair_task: a message for the repair queue, its body a RepairTask
\* or something RepairTask(**task_data) will not accept.
RepairPublished(original, valid) ==
    /\ rserial < MaxRepairs
    /\ rserial' = rserial + 1
    /\ rin' = Append(rin, [id |-> rserial + 1, valid |-> valid, deliveries |-> 0,
                           task |-> RepairTask(original, [error |-> "error"], SnippetMax)])
    /\ UNCHANGED <<nonrepair, rmsg, rpc, rsel, rok, rpub, extq>>

\* The same for a task the repair worker published itself: its extraction
\* failed again.
RetryFailedAgain(i) ==
    /\ i \in DOMAIN extq
    /\ RepairPublished(extq[i], TRUE)

\* The broker delivers the message at the head of the repair queue.
RepairDelivered ==
    /\ rpc \in {"idle", "acked", "rejected"}
    /\ rin # <<>>
    /\ Head(rin).deliveries < MaxDeliveries
    /\ rmsg' = [Head(rin) EXCEPT !.deliveries = @ + 1]
    /\ rin' = Tail(rin)
    /\ rpc' = "parse"
    /\ rsel' = ""
    /\ rok' = FALSE
    /\ rpub' = 0
    /\ UNCHANGED <<nonrepair, extq, rserial>>

\* process_task: RepairTask(**task_data) accepts the body; repair_selectors
\* asks the inference client.
RepairParsed ==
    /\ rpc = "parse"
    /\ rmsg.valid
    /\ rpc' = "llm"
    /\ UNCHANGED <<nonrepair, rin, rmsg, rsel, rok, rpub, extq, rserial>>

\* process_task: RepairTask(**task_data) raises.
RepairParseRaises ==
    /\ rpc = "parse"
    /\ ~rmsg.valid
    /\ rpc' = "raised"
    /\ UNCHANGED <<nonrepair, rin, rmsg, rsel, rok, rpub, extq, rserial>>

\* llm.repair_selectors returns the new selectors.
SelectorsReturned(new_selectors) ==
    /\ rpc = "llm"
    /\ rsel' = new_selectors
    /\ rpc' = "publish"
    /\ UNCHANGED <<nonrepair, rin, rmsg, rok, rpub, extq, rserial>>

\* Variant: a failed repair leaves process_task as an exception.
RepairFails_raising ==
    /\ rpc = "llm"
    /\ rok' = FALSE
    /\ rpc' = "raised"
    /\ UNCHANGED <<nonrepair, rin, rmsg, rsel, rpub, extq, rserial>>

\* llm.repair_selectors raises: repair_selectors logs repair_failed and
\* returns False, process_task returns.
RepairFails ==
    /\ rpc = "llm"
    /\ rok' = FALSE
    /\ rpc' = "returned"
    /\ UNCHANGED <<nonrepair, rin, rmsg, rsel, rpub, extq, rserial>>

\* Variant: the retry task is published as a new task, its retry count 0.
PublishRetry_as_new_task ==
    /\ rpc = "publish"
    /\ extq' = Append(extq, [RetryTask(rmsg.task.original_task, rsel) EXCEPT !.retry_count = 0])
    /\ rpub' = rpub + 1
    /\ rok' = TRUE
    /\ rpc' = "returned"
    /\ UNCHANGED <<nonrepair, rin, rmsg, rsel, rserial>>

\* repair_selectors builds retry_task and publishes it to the extraction
\* queue; it returns True and process_task returns.
PublishRetry ==
    /\ rpc = "publish"
    /\ extq' = Append(extq, RetryTask(rmsg.task.original_task, rsel))
    /\ rpub' = rpub + 1
    /\ rok' = TRUE
    /\ rpc' = "returned"
    /\ UNCHANGED <<nonrepair, rin, rmsg, rsel, rserial>>

\* process_task returned: process_message acknowledges the delivery.
RepairAcked ==
    /\ rpc = "returned"
    /\ rpc' = "acked"
    /\ UNCHANGED <<nonrepair, rin, rmsg, rsel, rok, rpub, extq, rserial>>

\* process_task raised: process_message rejects the delivery with requeue.
RepairRejected ==
    /\ rpc = "raised"
    /\ rin' = Append(rin, rmsg)
    /\ rpc' = "rejected"
    /\ UNCHANGED <<nonrepair, rmsg, rsel, rok, rpub, extq, rserial>>

RepairNext ==
    \/ \E original \in FreshTasks, valid \in BOOLEAN : RepairPublished(original, valid)
    \/ \E i \in 1..MaxRepairs : RetryFailedAgain(i)
    \/ RepairDelivered
    \/ RepairParsed
    \/ RepairParseRaises
    \/ \E new_selectors \in Selectors : SelectorsReturned(new_selectors)
    \/ RepairFails
    \/ PublishRetry
    \/ RepairAcked
    \/ RepairRejected

\* ------------------------------------------------------------------------
\* The cycle extraction -> repair -> extraction for one task: the extraction
\* handler and the repair handler with the two queues between them, every
\* message delivered once.
\* ------------------------------------------------------------------------
\* The tasks the discovery worker puts on the extraction queue.
ChainSeeds == {t \in FreshTasks : t.retry_count = 0}

\* The task is delivered to an extraction process that has fetched nothing.
ChainSeeded(task) ==
    /\ epc = "idle"
    /\ ndone = 0
    /\ ProcessTaskStarts(task, {})

\* publish_repair_task: the RepairTask process_task published is on the
\* repair queue.
RepairQueued ==
    /\ rserial < Len(repairq)
    /\ rserial < MaxAttempts
    /\ rserial' = rserial + 1
    /\ rin' = Append(rin, [id |-> rserial + 1, valid |-> TRUE, deliveries |-> 0,
                           task |-> repairq[rserial + 1]])
    /\ UNCHANGED <<nonrepair, rmsg, rpc, rsel, rok, rpub, extq>>

\* The retry task the repair worker published after the attempt before is
\* delivered, to the extraction process of that attempt or to one of the
\* others, which has not fetched the locator.
RetryDelivered(fresh) ==
    /\ epc = "acked"
    /\ ndone \in DOMAIN extq
    /\ ndone < MaxAttempts
    /\ ProcessTaskStarts(extq[ndone], IF fresh THEN {} ELSE evisited)

ChainNext ==
    \/ \E task \in ChainSeeds : ChainSeeded(task)
    \/ \E fresh \in BOOLEAN : RetryDelivered(fresh)
    \/ FetchSkipped
    \/ \E marked \in BOOLEAN : FetchFails(marked)
    \/ \E n \in HtmlLens : FetchOk(n)
    \/ \E success \in BOOLEAN, error \in LlmErrors : LlmReturns(success, error)
    \/ SaveResult
    \/ PublishRepair
    \/ TaskAcked
    \/ RepairQueued
    \/ RepairDelivered
    \/ RepairParsed
    \/ \E new_selectors \in Selectors : SelectorsReturned(new_selectors)
    \/ RepairFails
    \/ PublishRetry
    \/ RepairAcked

\* ------------------------------------------------------------------------
\* The discovery worker: DiscoveryAgent.process_task as the handler of the
\* discovery queue (scraper/workers/discovery_worker.py)
\* ------------------------------------------------------------------------
\* The keys of DiscoveryAgent.PATTERNS in the order classify_url tries them.
PatternOrder ==
    <<"league_index", "league_clubs", "club_profile", "club_transfers",
      "player_profile", "player_transfers", "competition_page">>

\* Paths on www.transfermarkt.com, one or two for each pattern.
Links ==
    {"/wettbewerbe/europa", "/premier-league/startseite/wettbewerb/GB1",
     "/fc-a/startseite/verein/11", "/fc-a/transfers/verein/11",
     "/x-y/profil/spieler/7", "/x-y/transfers/spieler/7", "/wettbewerb/GB1"}

\* The patterns of PATTERNS that pattern.search finds in the url.
Matches(url) ==
    CASE url = "/wettbewerbe/europa" -> {"league_index"}
      [] url = "/premier-league/startseite/wettbewerb/GB1" -> {"league_clubs", "competition_page"}
      [] url = "/fc-a/startseite/verein/11" -> {"club_profile"}
      [] url = "/fc-a/transfers/verein/11" -> {"club_transfers"}
      [] url = "/x-y/profil/spieler/7" -> {"player_profile"}
      [] url = "/x-y/transfers/spieler/7" -> {"player_transfers"}
      [] url = "/wettbewerb/GB1" -> {"competition_page"}
      [] OTHER -> {}

\* DiscoveryAgent.classify_url: the first pattern that matches.
classify_url(url) ==
    LET hits == {i \in DOMAIN PatternOrder : PatternOrder[i] \in Matches(url)}
    IN  IF hits = {} THEN "unknown"
        ELSE PatternOrder[CHOOSE i \in hits : \A j \in hits : i <= j]

\* DiscoveryAgent.extract_transfermarkt_id
extract_transfermarkt_id(url) ==
    CASE url \in {"/fc-a/startseite/verein/11", "/fc-a/transfers/verein/11"} -> "11"
      [] url \in {"/x-y/profil/spieler/7", "/x-y/transfers/spieler/7"} -> "7"
      [] OTHER -> "None"

\* DiscoveryAgent.prioritize_url
prioritize_url(url, page_type) ==
    CASE page_type = "league_index" -> CRITICAL
      [] page_type = "league_clubs" -> HIGH
      [] page_type = "club_transfers" -> HIGH
      [] page_type = "player_transfers" -> MEDIUM
      [] page_type = "club_profile" -> MEDIUM
      [] page_type = "player_profile" -> MEDIUM
      [] page_type = "competition_page" -> LOW
      [] page_type = "unknown" -> LOW
      [] OTHER -> LOW

\* The page types process_task sends to the extraction queue.
HighValue == {"club_transfers", "player_transfers", "player_profile"}

\* new_task of process_task.
NewTask(link) ==
    [url |-> link, page_type |-> classify_url(link),
     priority |-> prioritize_url(link, classify_url(link)),
     metadata |-> [discovered_from |-> dtask.url, tm_id |-> extract_transfermarkt_id(link)],
     retry_count |-> 0]

\* The pages discovery tasks are about.
DiscoveryUrls == {"/wettbewerbe/europa", "/premier-league/startseite/wettbewerb/GB1"}
NoDiscoveryTask == [url |-> "", valid |-> FALSE]
LinkSets == {links \in SUBSET Links : Cardinality(links) <= MaxLinks}

DiscoveryInit ==
    /\ dtask = NoDiscoveryTask
    /\ dpc = "idle"
    /\ visited = {}
    /\ dfound = {}
    /\ dlinks = {}
    /\ to_discovery = <<>>
    /\ to_extraction = <<>>
    /\ dfetched = FALSE
    /\ dn = 0

\* A message of the discovery queue is delivered, its body a ScrapingTask or
\* something ScrapingTask(**task_data) will not accept.
DiscoveryDelivered(url, valid) ==
    /\ dpc \in {"idle", "acked", "rejected"}
    /\ dn < MaxDiscoveries
    /\ dn' = dn + 1
    /\ dtask' = [url |-> url, valid |-> valid]
    /\ dpc' = "parse"
    /\ dfound' = {}
    /\ dlinks' = {}
    /\ to_discovery' = <<>>
    /\ to_extraction' = <<>>
    /\ dfetched' = FALSE
    /\ UNCHANGED <<nondiscovery, visited>>

\* process_task: ScrapingTask(**task_data) accepts the body.
DiscoveryParsed ==
    /\ dpc = "parse"
    /\ dtask.valid
    /\ dpc' = "fetch"
    /\ UNCHANGED <<nondiscovery, dtask, visited, dfound, dlinks, to_discovery,
                   to_extraction, dfetched, dn>>

\* process_task: ScrapingTask(**task_data) raises.
DiscoveryParseRaises ==
    /\ dpc = "parse"
    /\ ~dtask.valid
    /\ dpc' = "raised"
    /\ UNCHANGED <<nondiscovery, dtask, visited, dfound, dlinks, to_discovery,
                   to_extraction, dfetched, dn>>

\* Variant: a failed fetch leaves process_task as an exception.
DiscoveryFetchFails_raising ==
    /\ dpc = "fetch"
    /\ dpc' = "raised"
    /\ UNCHANGED <<nondiscovery, dtask, visited, dfound, dlinks, to_discovery,
                   to_extraction, dfetched, dn>>

\* fetch_page returns None: the url was visited before, or no attempt got a
\* 200; process_task logs failed_to_fetch and returns.
DiscoveryFetchFails ==
    /\ dpc = "fetch"
    /\ dpc' = "returned"
    /\ UNCHANGED <<nondiscovery, dtask, visited, dfound, dlinks, to_discovery,
                   to_extraction, dfetched, dn>>

\* fetch_page gets a 200 with an empty body: the url counts as visited and
\* process_task returns as for None.
DiscoveryFetchEmpty ==
    /\ dpc = "fetch"
    /\ dtask.url \notin visited
    /\ visited' = visited \cup {dtask.url}
    /\ dpc' = "returned"
    /\ UNCHANGED <<nondiscovery, dtask, dfound, dlinks, to_discovery,
                   to_extraction, dfetched, dn>>

\* fetch_page returns the page and extract_links its links.
DiscoveryFetchOk(links) ==
    /\ dpc = "fetch"
    /\ dtask.url \notin visited
    /\ visited' = visited \cup {dtask.url}
    /\ dfetched' = TRUE
    /\ dfound' = links
    /\ dlinks' = links
    /\ dpc' = IF links = {} THEN "returned" ELSE "links"
    /\ UNCHANGED <<nondiscovery, dtask, to_discovery, to_extraction, dn>>

\* Variant: a high-value link goes to both queues.
PublishLink_to_both(link) ==
    /\ dpc = "links"
    /\ link \in dlinks
    /\ to_extraction' = IF classify_url(link) \in HighValue
                        THEN Append(to_extraction, NewTask(link)) ELSE to_extraction
    /\ to_discovery' = Append(to_discovery, NewTask(link))
    /\ dlinks' = dlinks \ {link}
    /\ dpc' = IF dlinks' = {} THEN "returned" ELSE "links"
    /\ UNCHANGED <<nondiscovery, dtask, visited, dfound, dfetched, dn>>

\* One turn of the loop over links: the link is classified, given its
\* priority and published to one of the two queues.
PublishLink(link) ==
    /\ dpc = "links"
    /\ link \in dlinks
    /\ to_extraction' = IF classify_url(link) \in HighValue
                        THEN Append(to_extraction, NewTask(link)) ELSE to_extraction
    /\ to_discovery' = IF classify_url(link) \in HighValue
                       THEN to_discovery ELSE Append(to_discovery, NewTask(link))
    /\ dlinks' = dlinks \ {link}
    /\ dpc' = IF dlinks' = {} THEN "returned" ELSE "links"
    /\ UNCHANGED <<nondiscovery, dtask, visited, dfound, dfetched, dn>>

\* process_task returned: process_message acknowledges the delivery.
DiscoveryAcked ==
    /\ dpc = "returned"
    /\ dpc' = "acked"
    /\ UNCHANGED <<nondiscovery, dtask, visited, dfound, dlinks, to_discovery,
                   to_extraction, dfetched, dn>>

\* process_task raised: process_message rejects the delivery with requeue.
DiscoveryRejected ==
    /\ dpc = "raised"
    /\ dpc' = "rejected"
    /\ UNCHANGED <<nondiscovery, dtask, visited, dfound, dlinks, to_discovery,
                   to_extraction, dfetched, dn>>

DiscoveryNext ==
    \/ \E url \in DiscoveryUrls, valid \in BOOLEAN : DiscoveryDelivered(url, valid)
    \/ DiscoveryParsed
    \/ DiscoveryParseRaises
    \/ DiscoveryFetchFails
    \/ DiscoveryFetchEmpty
    \/ \E links \in LinkSets : DiscoveryFetchOk(links)
    \/ \E link \in Links : PublishLink(link)
    \/ DiscoveryAcked
    \/ DiscoveryRejected

\* ------------------------------------------------------------------------
\* The supervisor and its worker processes (scraper/main.py)
\* ------------------------------------------------------------------------
Workers == 1..NumWorkers
Supervisor == 0

\* The worker processes that are running.
Alive == {w \in Workers : wstate[w] \in {"starting", "consuming", "unwinding"}}

SupervisorInit ==
    /\ spc = "seed"
    /\ wstate = [w \in Workers |-> "none"]
    /\ sigterm = {}
    /\ inflight = {}
    /\ consumers = {}
    /\ cancelled = {}
    /\ cut = {}
    /\ how = [w \in Workers |-> ""]
    /\ refused = {}
    /\ grace_over = FALSE

\* seed_initial_tasks: get_queue_manager raises out of connect; the exception
\* leaves async_main, asyncio.run and main.
SeedConnectFails ==
    /\ spc = "seed"
    /\ refused' = refused \cup {Supervisor}
    /\ spc' = "exited"
    /\ UNCHANGED <<nonsupervisor, wstate, sigterm, inflight, consumers, cancelled, cut,
                   how, grace_over>>

\* seed_initial_tasks returns; async_main builds the WorkerManager and sets
\* the handler of SIGINT and SIGTERM.
Seeded ==
    /\ spc = "seed"
    /\ spc' = "spawn"
    /\ UNCHANGED <<nonsupervisor, wstate, sigterm, inflight, consumers, cancelled, cut,
                   how, refused, grace_over>>

\* spawn_workers starts the next process; after the last it returns and
\* wait_for_workers joins.
SpawnWorker(w) ==
    /\ spc = "spawn"
    /\ wstate[w] = "none"
    /\ \A v \in Workers : v < w => wstate[v] # "none"
    /\ wstate' = [wstate EXCEPT ![w] = "starting"]
    /\ spc' = IF w = NumWorkers THEN "wait" ELSE "spawn"
    /\ UNCHANGED <<nonsupervisor, sigterm, inflight, consumers, cancelled, cut, how,
                   refused, grace_over>>

\* Variant: the worker starts its consumers although the connection failed.
WorkerConnectFails_consuming(w) ==
    /\ wstate[w] = "starting"
    /\ w \notin sigterm
    /\ refused' = refused \cup {w}
    /\ wstate' = [wstate EXCEPT ![w] = "consuming"]
    /\ consumers' = consumers \cup {w}
    /\ UNCHANGED <<nonsupervisor, spc, sigterm, inflight, cancelled, cut, how, grace_over>>

\* run_*_worker: get_queue_manager raises before any consume_tasks task is
\* made; run_worker_process logs worker_process_error and the process ends.
WorkerConnectFails(w) ==
    /\ wstate[w] = "starting"
    /\ w \notin sigterm
    /\ refused' = refused \cup {w}
    /\ wstate' = [wstate EXCEPT ![w] = "dead"]
    /\ how' = [how EXCEPT ![w] = "exit"]
    /\ UNCHANGED <<nonsupervisor, spc, sigterm, inflight, consumers, cancelled, cut,
                   grace_over>>

\* run_*_worker: the connection is there, the consume_tasks tasks are made.
WorkerConnected(w) ==
    /\ wstate[w] = "starting"
    /\ w \notin sigterm
    /\ wstate' = [wstate EXCEPT ![w] = "consuming"]
    /\ consumers' = consumers \cup {w}
    /\ UNCHANGED <<nonsupervisor, spc, sigterm, inflight, cancelled, cut, how, refused,
                   grace_over>>

\* A delivery: the handler of a consumer of the worker starts.
HandlerStarts(w) ==
    /\ wstate[w] = "consuming"
    /\ w \notin inflight
    /\ inflight' = inflight \cup {w}
    /\ UNCHANGED <<nonsupervisor, spc, wstate, sigterm, consumers, cancelled, cut, how,
                   refused, grace_over>>

\* The handler runs to its end.
HandlerFinishes(w) ==
    /\ wstate[w] = "consuming"
    /\ w \in inflight
    /\ inflight' = inflight \ {w}
    /\ UNCHANGED <<nonsupervisor, spc, wstate, sigterm, consumers, cancelled, cut, how,
                   refused, grace_over>>

\* SIGINT or SIGTERM reaches the supervisor: signal_handler calls shutdown.
Signal ==
    /\ spc \in {"spawn", "wait"}
    /\ spc' = "terminate"
    /\ UNCHANGED <<nonsupervisor, wstate, sigterm, inflight, consumers, cancelled, cut,
                   how, refused, grace_over>>

\* shutdown, first loop: p.terminate() sends SIGTERM to every process that
\* is alive.
TerminateWorkers ==
    /\ spc = "terminate"
    /\ sigterm' = Alive
    /\ spc' = "join"
    /\ UNCHANGED <<nonsupervisor, wstate, inflight, consumers, cancelled, cut, how,
                   refused, grace_over>>

\* SIGTERM in a worker started with spawn: the worker sets no handler, the
\* default disposition ends the process there and then.
WorkerDiesOfSigterm(w) ==
    /\ w \in sigterm
    /\ sigterm' = sigterm \ {w}
    /\ wstate' = [wstate EXCEPT ![w] = "dead"]
    /\ how' = [how EXCEPT ![w] = "sigterm"]
    /\ cut' = cut \cup ({w} \cap inflight)
    /\ inflight' = inflight \ {w}
    /\ UNCHANGED <<nonsupervisor, spc, consumers, cancelled, refused, grace_over>>

\* SIGTERM in a worker started with fork: the handler it has from the
\* supervisor raises in the main thread, asyncio.run cancels every task, the
\* running handler with the consumers.
WorkerUnwinds(w) ==
    /\ w \in sigterm
    /\ sigterm' = sigterm \ {w}
    /\ wstate' = [wstate EXCEPT ![w] = "unwinding"]
    /\ cancelled' = cancelled \cup ({w} \cap consumers)
    /\ cut' = cut \cup ({w} \cap inflight)
    /\ inflight' = inflight \ {w}
    /\ UNCHANGED <<nonsupervisor, spc, consumers, how, refused, grace_over>>

\* The cancelled tasks are done and the process ends.
WorkerExits(w) ==
    /\ wstate[w] = "unwinding"
    /\ wstate' = [wstate EXCEPT ![w] = "dead"]
    /\ how' = [how EXCEPT ![w] = "exit"]
    /\ UNCHANGED <<nonsupervisor, spc, sigterm, inflight, consumers, cancelled, cut,
                   refused, grace_over>>

\* shutdown, second loop: every join(timeout=5) has returned, the process
\* ended or not.
JoinWorkers ==
    /\ spc = "join"
    /\ sigterm = {}
    /\ grace_over' = TRUE
    /\ spc' = "kill"
    /\ UNCHANGED <<nonsupervisor, wstate, sigterm, inflight, consumers, cancelled, cut,
                   how, refused>>

\* shutdown, third loop: p.kill() for every process still alive; shutdown
\* returns.
KillWorkers ==
    /\ spc = "kill"
    /\ wstate' = [w \in Workers |-> IF w \in Alive THEN "dead" ELSE wstate[w]]
    /\ how' = [w \in Workers |-> IF w \in Alive THEN "sigkill" ELSE how[w]]
    /\ cut' = cut \cup (Alive \cap inflight)
    /\ inflight' = inflight \ Alive
    /\ spc' = "stopped"
    /\ UNCHANGED <<nonsupervisor, sigterm, consumers, cancelled, refused, grace_over>>

\* signal_handler: sys.exit(0) after shutdown.
SupervisorExits ==
    /\ spc = "stopped"
    /\ spc' = "exited"
    /\ UNCHANGED <<nonsupervisor, wstate, sigterm, inflight, consumers, cancelled, cut,
                   how, refused, grace_over>>

\* wait_for_workers: every process has ended by itself, async_main returns.
WorkersGone ==
    /\ spc = "wait"
    /\ Alive = {}
    /\ spc' = "exited"
    /\ UNCHANGED <<nonsupervisor, wstate, sigterm, inflight, consumers, cancelled, cut,
                   how, refused, grace_over>>

SupervisorNext ==
    \/ SeedConnectFails
    \/ Seeded
    \/ \E w \in Workers : SpawnWorker(w)
    \/ \E w \in Workers : WorkerConnectFails(w)
    \/ \E w \in Workers : WorkerConnected(w)
    \/ \E w \in Workers : HandlerStarts(w)
    \/ \E w \in Workers : HandlerFinishes(w)
    \/ Signal
    \/ TerminateWorkers
    \/ \E w \in Workers : WorkerDiesOfSigterm(w)
    \/ \E w \in Workers : WorkerUnwinds(w)
    \/ \E w \in Workers : WorkerExits(w)
    \/ JoinWorkers
    \/ KillWorkers
    \/ SupervisorExits
    \/ WorkersGone

\* ------------------------------------------------------------------------
\* DiscoveryAgent.fetch_page, called by the consumers of one worker process,
\* which share the agent and its visited set
\* (scraper/workers/discovery_worker.py)
\* ------------------------------------------------------------------------
Fetchers == 1..NumFetchers

FetchStart ==
    /\ fpc = [k \in Fetchers |-> "idle"]
    /\ furl = [k \in Fetchers |-> ""]
    /\ fattempt = [k \in Fetchers |-> 0]
    /\ fret = [k \in Fetchers |-> "nothing"]
    /\ fsleeps = [k \in Fetchers |-> <<>>]
    /\ fgets = [k \in Fetchers |-> 0]

\* The retry count as shipped.
FetchInit == fmax = MaxFetchRetries /\ FetchStart

\* Any retry count.
FetchSettings == fmax \in 0..MaxFetchRetries /\ FetchStart

\* fetch_page is called: with the locator in the visited set it returns None
\* at once; otherwise it goes to sleep for the politeness delay.
FetchPageCalled(k, url) ==
    /\ fpc[k] \in {"idle", "done"}
    /\ furl' = [furl EXCEPT ![k] = url]
    /\ fattempt' = [fattempt EXCEPT ![k] = 0]
    /\ fsleeps' = [fsleeps EXCEPT ![k] = <<>>]
    /\ fgets' = [fgets EXCEPT ![k] = 0]
    /\ IF url \in visited
       THEN /\ fpc' = [fpc EXCEPT ![k] = "done"]
            /\ fret' = [fret EXCEPT ![k] = "None"]
       ELSE /\ fpc' = [fpc EXCEPT ![k] = "delay"]
            /\ fret' = [fret EXCEPT ![k] = "nothing"]
    /\ UNCHANGED <<nonfetch, visited>>

\* for attempt in range(max_retries): the loop goes to attempt a and issues
\* its GET, or is over, and fetch_page returns None.
NextAttempt(k, a) ==
    IF a < fmax
    THEN /\ fpc' = [fpc EXCEPT ![k] = "get"]
         /\ fattempt' = [fattempt EXCEPT ![k] = a]
         /\ fgets' = [fgets EXCEPT ![k] = fgets[k] + 1]
         /\ fret' = fret
    ELSE /\ fpc' = [fpc EXCEPT ![k] = "done"]
         /\ fattempt' = fattempt
         /\ fgets' = fgets
         /\ fret' = [fret EXCEPT ![k] = "None"]

\* The politeness delay is over.
DelayOver(k) ==
    /\ fpc[k] = "delay"
    /\ NextAttempt(k, 0)
    /\ UNCHANGED <<nonfetch, visited, furl, fsleeps>>

\* The GET is answered 200: the locator is added to the visited set, then
\* the body is read and returned; a body that cannot be read raises, which
\* fetch_page logs before it goes on to the next attempt.
Response200(k, body_read) ==
    /\ fpc[k] = "get"
    /\ visited' = visited \cup {furl[k]}
    /\ IF body_read
       THEN /\ fpc' = [fpc EXCEPT ![k] = "done"]
            /\ fret' = [fret EXCEPT ![k] = "page"]
            /\ UNCHANGED <<fattempt, fgets>>
       ELSE NextAttempt(k, fattempt[k] + 1)
    /\ UNCHANGED <<nonfetch, furl, fsleeps>>

\* The GET is answered 429: fetch_page sleeps for 30 * (attempt + 1) seconds.
Response429(k) ==
    /\ fpc[k] = "get"
    /\ fpc' = [fpc EXCEPT ![k] = "sleep"]
    /\ fsleeps' = [fsleeps EXCEPT ![k] = Append(@, RateLimitWait * (fattempt[k] + 1))]
    /\ UNCHANGED <<nonfetch, visited, furl, fattempt, fret, fgets>>

\* The sleep after a 429 is over.
SleepOver(k) ==
    /\ fpc[k] = "sleep"
    /\ NextAttempt(k, fattempt[k] + 1)
    /\ UNCHANGED <<nonfetch, visited, furl, fsleeps>>

\* The GET is answered with another status, times out or raises: fetch_page
\* logs it and goes on to the next attempt.
ResponseOther(k) ==
    /\ fpc[k] = "get"
    /\ NextAttempt(k, fattempt[k] + 1)
    /\ UNCHANGED <<nonfetch, visited, furl, fsleeps>>

FetchNext ==
    \/ \E k \in Fetchers, url \in Urls : FetchPageCalled(k, url)
    \/ \E k \in Fetchers : DelayOver(k)
    \/ \E k \in Fetchers, body_read \in BOOLEAN : Response200(k, body_read)
    \/ \E k \in Fetchers : Response429(k)
    \/ \E k \in Fetchers : SleepOver(k)
    \/ \E k \in Fetchers : ResponseOther(k)

\* ========================================================================
\* Specifications
\* ========================================================================
QueueSteps ==
    \/ \E call \in PublishCalls : Publish(call, MaxMsgs)
    \/ \E m \in Published, c \in Consumers : Deliver(m, c)
    \/ \E t \in tasks : HandlerReturn(t)
    \/ \E t \in tasks : HandlerRaise(t)
    \/ \E t \in tasks : HandlerCancelled(t)
    \/ \E t \in tasks : AckOk(t)
    \/ \E t \in tasks : AckError(t)
    \/ \E t \in tasks : AckCancelled(t)
    \/ \E t \in tasks : RejectOk(t)
    \/ \E t \in tasks : RejectError(t)
    \/ \E t \in tasks : RejectCancelled(t)
    \/ \E p \in Procs : ProcessExit(p)

QueueNext ==
    \/ QueueSteps
    \/ \E p \in Procs : StopProcess(p, FALSE)
    \/ \E p \in Procs : Close(p, FALSE)

\* The queue with its consumers, worker processes stopping and connections
\* closing at any time.
\* Every component as constructed.
Init ==
    /\ QueueInit /\ LLMInit /\ BackoffInit /\ ExtractInit
    /\ RepairInit /\ DiscoveryInit /\ SupervisorInit /\ FetchInit

\* The queue on its own, the inference client idle.
QInit == Init /\ max_concurrent = 1

QueueSpec == QInit /\ [][QueueNext]_vars

\* The same with a consumer always left to the queue and with the scheduling
\* the event loop and the broker give: a ready message is delivered when a
\* consumer has room, a coroutine that can go on does, a stopping process
\* exits, and no message's handler fails on every delivery for ever.
QueueLiveNext ==
    \/ QueueSteps
    \/ \E p \in Procs : StopProcess(p, TRUE)
    \/ \E p \in Procs : Close(p, TRUE)

HandlerEnds(t) == HandlerReturn(t) \/ HandlerRaise(t) \/ HandlerCancelled(t)

Settles(t) ==
    \/ AckOk(t) \/ AckError(t) \/ AckCancelled(t)
    \/ RejectOk(t) \/ RejectError(t) \/ RejectCancelled(t)

QueueFairness ==
    /\ WF_vars(\E m \in Published, c \in Consumers : Deliver(m, c))
    /\ WF_vars(\E t \in tasks : HandlerEnds(t))
    /\ WF_vars(\E t \in tasks : Settles(t))
    /\ WF_vars(\E p \in Procs : ProcessExit(p))
    /\ \A m \in 1..MaxMsgs : SF_vars(\E t \in tasks : t.m = m /\ HandlerReturn(t))

QueueLiveSpec == QInit /\ [][QueueLiveNext]_vars /\ QueueFairness

\* The same without the assumption on the handlers: a handler may raise on
\* every delivery of a message, as it does for a body that json.loads or the
\* task model refuses.
RequeueFairness ==
    /\ WF_vars(\E m \in Published, c \in Consumers : Deliver(m, c))
    /\ WF_vars(\E t \in tasks : HandlerEnds(t))
    /\ WF_vars(\E t \in tasks : Settles(t))
    /\ WF_vars(\E p \in Procs : ProcessExit(p))

RequeueLiveSpec == QInit /\ [][QueueLiveNext]_vars /\ RequeueFairness

\* Publishing and consuming with every worker process up: a backlog of
\* messages of mixed priorities and its delivery order.
OrderNext ==
    \/ \E call \in PublishCalls : Publish(call, MaxBacklog)
    \/ \E m \in Published, c \in Consumers : Deliver(m, c)
    \/ \E t \in tasks : HandlerReturn(t)
    \/ \E t \in tasks : HandlerRaise(t)
    \/ \E t \in tasks : AckOk(t)
    \/ \E t \in tasks : RejectOk(t)

OrderSpec == QInit /\ [][OrderNext]_vars

\* The inference client with its concurrent callers.
LLMSpec == Init /\ [][LLMNext]_vars

\* The inference client with time going on for ever.
LInit ==
    /\ QueueInit /\ LLMInitAtHorizon /\ BackoffInit /\ ExtractInit
    /\ RepairInit /\ DiscoveryInit /\ SupervisorInit /\ FetchInit

LLMLiveSpec == LInit /\ [][LLMLiveNext]_vars /\ LLMFairness

\* The retry delays for every setting of the two backoff parameters.
BInit ==
    /\ QueueInit /\ LLMInit /\ max_concurrent = 1 /\ BackoffSettings /\ ExtractInit
    /\ RepairInit /\ DiscoveryInit /\ SupervisorInit /\ FetchInit

BackoffSpec == BInit /\ [][BackoffNext]_vars

\* The extraction worker's handler, task after task, for every setting of
\* the extraction flags.
EInit ==
    /\ QueueInit /\ LLMInit /\ max_concurrent = 1 /\ BackoffInit /\ ExtractSettings
    /\ RepairInit /\ DiscoveryInit /\ SupervisorInit /\ FetchInit

ExtractSpec == EInit /\ [][ExtractNext]_vars

\* The repair worker's handler, delivery after delivery.
RepairSpec == QInit /\ [][RepairNext]_vars

\* One task through extraction and repair with the scheduling the broker and
\* the event loops give: a step that can be taken is taken.
ChainSpec == QInit /\ [][ChainNext]_vars /\ WF_vars(ChainNext)

\* fetch_page called by the consumers of one process, for every retry count.
FInit ==
    /\ QueueInit /\ LLMInit /\ max_concurrent = 1 /\ BackoffInit /\ ExtractInit
    /\ RepairInit /\ DiscoveryInit /\ SupervisorInit /\ FetchSettings

FetchSpec == FInit /\ [][FetchNext]_vars

\* The discovery worker's handler, delivery after delivery.
DiscoverySpec == QInit /\ [][DiscoveryNext]_vars

\* The supervisor from its start to its exit, with its worker processes.
SupervisorSpec == QInit /\ [][SupervisorNext]_vars

\* ------------------------------------------------------------------------
\* Steps of process_message as seen from outside
\* ------------------------------------------------------------------------
\* The run t of process_message ends in this step.
Ends(t) == t \in tasks /\ \A u \in tasks' : ~(u.c = t.c /\ u.m = t.m)

\* The run t ends with the broker taking its acknowledgement / its rejection
\* with requeue.
AckedBy(t) == Ends(t) /\ HeldBy(t) /\ mstate'[t.m] = "acked"
RejectedBy(t) == Ends(t) /\ t.pc = "reject" /\ HeldBy(t) /\ mstate'[t.m] = "ready"

\* The run t is cancelled in this step.
CancelledRun(t) == HandlerCancelled(t) \/ AckCancelled(t) \/ RejectCancelled(t)

ChannelOpen(t) == chan[ProcOf(t.c)] = "open"

C2_AckIffReturnedRejectIffRaised ==
    /\ [][\A t \in tasks : Ends(t) =>
            /\ AckedBy(t) <=> t.h = "ok"
            /\ RejectedBy(t) <=> t.h = "raised"]_vars
    /\ [][\A m \in Published : mstate[m] = "acked" => mstate'[m] = "acked"]_vars

\* C2 as amended: a delivery is acknowledged only if its handler returned
\* normally and rejected with requeue only if its handler raised; a run that
\* is not cancelled and whose channel is open acknowledges exactly when the
\* handler returned normally and rejects exactly when it raised; no delivery
\* is both acknowledged and rejected; an acknowledged message is never
\* delivered again.
C2_AckOnlyIfReturnedRejectOnlyIfRaised ==
    /\ [][\A t \in tasks : Ends(t) =>
            /\ AckedBy(t) => t.h = "ok"
            /\ RejectedBy(t) => t.h = "raised"
            /\ ~(AckedBy(t) /\ RejectedBy(t))
            /\ (ChannelOpen(t) /\ ~CancelledRun(t)) =>
                  /\ AckedBy(t) <=> t.h = "ok"
                  /\ RejectedBy(t) <=> t.h = "raised"]_vars
    /\ [][\A m \in Published :
            /\ (mstate[m] # "acked" /\ mstate'[m] = "acked")
                  => \E t \in tasks : t.m = m /\ AckedBy(t)
            /\ mstate[m] = "acked" => mstate'[m] = "acked"]_vars

\* One delivery was acknowledged after its handler returned, another was
\* rejected and requeued after its handler raised.
C2_Witness ==
    \E m1, m2 \in Published :
        /\ mstate[m1] = "acked"
        /\ last[m2] = "raised" /\ mstate[m2] = "ready"

\* ------------------------------------------------------------------------
\* C3: a run of process_message cancelled while it awaits the handler leaves
\* the broker's state of the message untouched; the message stays
\* unacknowledged on its open channel, goes back to the queue when the
\* channel closes, and no published message is ever anywhere but ready,
\* unacknowledged on an open channel, or acknowledged.
\* ------------------------------------------------------------------------
C3_CancelledHandlerKeepsTask ==
    /\ [][\A t \in tasks : (Ends(t) /\ t.pc = "handler")
            => (mstate'[t.m] = mstate[t.m] /\ holder'[t.m] = holder[t.m])]_vars
    /\ [][\A p \in Procs : (chan[p] = "open" /\ chan'[p] = "closed")
            => \A m \in Published :
                 (mstate[m] = "unacked" /\ ProcOf(holder[m]) = p)
                     => mstate'[m] = "ready"]_vars
    /\ [](\A m \in Published :
            /\ last[m] = "cancelled"
                  => (mstate[m] = "unacked" /\ chan[ProcOf(holder[m])] = "open")
            /\ last[m] = "requeued_after_cancel" => mstate[m] = "ready"
            /\ \/ mstate[m] \in {"ready", "acked"}
               \/ mstate[m] = "unacked" /\ chan[ProcOf(holder[m])] = "open")

\* A message whose handler was cancelled went back to the queue when the
\* channel closed and was delivered to another consumer.
C3_Witness == \E m \in Published : last[m] = "again_after_cancel"

\* ------------------------------------------------------------------------
\* C4: the message delivered is of no lower priority than any message waiting
\* with it and is the oldest of its priority; priorities 10, 5, 10 published
\* before the first delivery are delivered first 10, second 10, 5.
\* ------------------------------------------------------------------------
C4_PriorityThenPublishOrder ==
    /\ [][\A m \in Published : (mstate[m] = "ready" /\ mstate'[m] = "unacked")
            => \A m2 \in Ready \ {m} :
                 \/ msgs[m].priority > msgs[m2].priority
                 \/ msgs[m].priority = msgs[m2].priority /\ m < m2]_vars
    /\ []((/\ Len(msgs) = 3
           /\ msgs[1].priority = 10 /\ msgs[2].priority = 5 /\ msgs[3].priority = 10
           /\ backlog = 3
           /\ Len(firstDelivery) = 3)
          => firstDelivery = <<1, 3, 2>>)

\* The three messages of priorities 10, 5, 10 were all waiting and have been
\* delivered in the order 1, 3, 2.
C4_Witness ==
    /\ Len(msgs) = 3
    /\ msgs[1].priority = 10 /\ msgs[2].priority = 5 /\ msgs[3].priority = 10
    /\ backlog = 3
    /\ firstDelivery = <<1, 3, 2>>

\* ------------------------------------------------------------------------
\* Callers of the inference client as seen from outside
\* ------------------------------------------------------------------------
\* Callers that have returned from RateLimiter.acquire and not yet released.
InFlight == { c \in Callers : pc[c] \in {"call", "backoff"} }

\* Callers that have taken a slot of the semaphore and not given it back.
SlotHolders == { c \in Callers : pc[c] \in {"lock_wait", "token_sleep", "call", "backoff"} }

\* ------------------------------------------------------------------------
\* C5: at every instant at most max_concurrent callers have returned from
\* acquire and not yet called release.
\* ------------------------------------------------------------------------
C5_InFlightAtMostMaxConcurrent == Cardinality(InFlight) <= max_concurrent

\* max_concurrent callers are in flight while another waits for a slot.
C5_Witness ==
    /\ Cardinality(InFlight) = max_concurrent
    /\ \E c \in Callers : pc[c] = "sem_wait"

\* ------------------------------------------------------------------------
\* C6 as claimed: no more than requests_per_minute calls are admitted in any
\* window of one minute.
\* ------------------------------------------------------------------------
C6_AtMostRpmAdmittedPerMinute == Len(admitted) <= requests_per_minute

\* ------------------------------------------------------------------------
\* C7 as claimed: the slots of the semaphore are either free or held by a
\* caller that is still in its call, whatever cancellations have happened.
\* ------------------------------------------------------------------------
C7_CancellationGivesSlotBack == sem + Cardinality(SlotHolders) = max_concurrent

\* ------------------------------------------------------------------------
\* C8: a call that ends after it was admitted releases exactly one slot and
\* leaves the bucket as it is; a slot is released by nothing else, and never
\* more slots are free than the semaphore has.
\* ------------------------------------------------------------------------
C8_AdmittedCallReleasesOneSlot ==
    /\ [][\A c \in Callers : (c \in InFlight /\ pc'[c] = "idle")
            => /\ sem' = sem + 1
               /\ active_requests' = active_requests - 1
               /\ tokens' = tokens]_vars
    /\ [][sem' > sem => \E c \in InFlight : pc'[c] = "idle"]_vars
    /\ [](sem <= max_concurrent)

\* A call has failed, its slot is free again and the token it took is not
\* back in the bucket.
C8_Witness ==
    /\ result = "error"
    /\ sem = max_concurrent
    /\ tokens < BucketCap /\ last_refill = now

\* ------------------------------------------------------------------------
\* C9: the breaker starts closed with failure count 0, is closed while fewer
\* than threshold failures have been recorded since the last recorded
\* success, and is open when their number reaches the threshold.
\* ------------------------------------------------------------------------
C9_OpensAtThreshold ==
    /\ ~is_open /\ failures = 0
    /\ [](consec < circuit_breaker_threshold => ~is_open)
    /\ [][(consec' # consec /\ consec' = circuit_breaker_threshold) => is_open']_vars

\* The breaker has just opened on the failure that reached the threshold.
C9_Witness ==
    /\ is_open
    /\ consec = circuit_breaker_threshold
    /\ failures = circuit_breaker_threshold

\* ------------------------------------------------------------------------
\* C10: a call made while the breaker is open and no more than timeout after
\* the last failure ends with the breaker-open error and changes nothing of
\* the limiter, of the breaker or of where any caller is.
\* ------------------------------------------------------------------------
C10_OpenBreakerFailsFast ==
    [][\A c \in Callers :
         (StartCall(c) /\ is_open /\ now - last_failure_time <= circuit_breaker_timeout)
            => /\ result' = "breaker_open"
               /\ UNCHANGED <<pc, sem, tokens, last_refill, active_requests, lock,
                              failures, last_failure_time, is_open, admitted>>]_vars

\* A call was refused exactly timeout after the last failure.
C10_Witness ==
    /\ result = "breaker_open"
    /\ is_open
    /\ now - last_failure_time = circuit_breaker_timeout

\* ------------------------------------------------------------------------
\* Steps of one call seen from outside
\* ------------------------------------------------------------------------
\* The step in which the call of c ends with the work's success or failure.
Succeeds(c) == pc[c] = "call" /\ pc'[c] = "idle" /\ result' \in {"ok", "json_error"}
Fails(c) == pc[c] = "call" /\ pc'[c] = "idle" /\ result' = "error"

\* The step in which the unit of work of c is invoked for the first time.
FirstInvoked(c) == pc[c] \notin {"call", "backoff"} /\ pc'[c] = "call"

\* ------------------------------------------------------------------------
\* C11 as claimed: while the call let through by the elapsed timeout is not
\* over, every other call that makes the admission check is refused with the
\* breaker-open error.
\* ------------------------------------------------------------------------
C11_OnlyTheProbeIsAdmitted ==
    [][\A d \in Callers :
         (probe # NoCaller /\ probe # d /\ StartCall(d))
            => result' = "breaker_open" /\ pc'[d] = "idle"]_vars

\* ------------------------------------------------------------------------
\* C12 as claimed: when the call let through by the elapsed timeout fails,
\* the breaker is open after that failure and its timer starts at the time
\* of the failure.
\* ------------------------------------------------------------------------
C12_FailedProbeReopens ==
    [][\A c \in Callers :
         (probe = c /\ Fails(c)) => is_open' /\ last_failure_time' = now]_vars

\* ------------------------------------------------------------------------
\* C13: when the unit of work succeeds, on whatever attempt and whether or
\* not the call is the one let through after an open period, success is
\* recorded and the breaker is then closed with failure count 0.
\* ------------------------------------------------------------------------
C13_SuccessClosesBreaker ==
    [][\A c \in Callers :
         Succeeds(c) => ~is_open' /\ failures' = 0 /\ consec' = 0]_vars

\* A call has succeeded after failures had been recorded; the count is back
\* to 0.
C13_Witness ==
    /\ result = "ok"
    /\ last_failure_time > 0
    /\ failures = 0 /\ ~is_open /\ consec = 0

\* ------------------------------------------------------------------------
\* C14: a call leaves its start only when the admission check passes; the
\* unit of work is first invoked in the step that debits a token from a
\* bucket holding one, with a slot of the semaphore taken by the caller; it
\* is invoked again only after a backoff, and at most max_retries times.
\* ------------------------------------------------------------------------
C14_CheckThenAcquireThenAttempts ==
    /\ [][\A c \in Callers : (pc[c] = "idle" /\ pc'[c] # "idle") => can_attempt]_vars
    /\ [][\A c \in Callers : FirstInvoked(c)
            => /\ Refilled >= OneToken
               /\ tokens' = Refilled - OneToken
               /\ active_requests' = active_requests + 1
               /\ sem' = IF pc[c] \in {"idle", "sem_wait"} THEN sem - 1 ELSE sem
               /\ attempt'[c] = 0]_vars
    /\ [][\A c \in Callers : (pc[c] = "backoff" /\ pc'[c] = "call")
            => attempt'[c] = attempt[c] + 1]_vars
    /\ [](\A c \in InFlight : attempt[c] < max_retries)
    /\ [](Cardinality(InFlight) + sem <= max_concurrent)

\* The unit of work is running on its last attempt.
C14_Witness ==
    \E c \in Callers :
        /\ pc[c] = "call"
        /\ attempt[c] = max_retries - 1
        /\ tokens < BucketCap

\* ------------------------------------------------------------------------
\* C15: an error that is not retryable ends the call at once; a retryable
\* error before the last attempt records nothing against the breaker and is
\* followed by a sleep of the backoff and then by the next attempt; an
\* outcome is recorded against the breaker only in the step that ends a
\* call, a success for a call that succeeds and one failure for a call that
\* fails.
\* ------------------------------------------------------------------------
C15_OneOutcomePerCall ==
    /\ [][\A c \in Callers : CallFails(c, FALSE) => Fails(c)]_vars
    /\ [][\A c \in Callers : (pc[c] = "call" /\ pc'[c] = "backoff")
            => /\ attempt[c] < max_retries - 1
               /\ wake'[c] - now \in SleepTimes(attempt[c])
               /\ UNCHANGED <<failures, last_failure_time, is_open, consec>>]_vars
    /\ [][\A c \in Callers : (pc[c] = "backoff" /\ pc'[c] # "backoff")
            => \/ pc'[c] = "call" /\ now >= wake[c] /\ attempt'[c] = attempt[c] + 1
               \/ pc'[c] = "idle" /\ result' = "cancelled"]_vars
    /\ [][(consec' # consec \/ failures' > failures \/ last_failure_time' # last_failure_time)
            => \E c \in Callers : Succeeds(c) \/ Fails(c)]_vars
    /\ [][\A c \in Callers : Fails(c)
            => /\ failures' = failures + 1
               /\ last_failure_time' = now
               /\ consec' = Min(consec + 1, circuit_breaker_threshold + 1)]_vars
    /\ [][\A c \in Callers : Succeeds(c) => consec' = 0 /\ failures' = 0]_vars

\* A call sleeps after a retryable error and nothing has been recorded.
C15_Witness ==
    \E c \in Callers :
        /\ pc[c] = "backoff"
        /\ wake[c] > now
        /\ result = "none" /\ failures = 0 /\ consec = 0

\* ------------------------------------------------------------------------
\* Nominal delay of the retry number k of the call that keeps failing.
\* ------------------------------------------------------------------------
Nominal(k) == BackoffOf(bbase, bcap, k)

\* ------------------------------------------------------------------------
\* C16 as claimed: the delays slept before consecutive retries never
\* decrease, and each lies within a quarter of its nominal value.
\* ------------------------------------------------------------------------
C16_DelaysNeverDecrease ==
    /\ \A k \in 1..(Len(delays) - 1) : delays[k] <= delays[k + 1]
    /\ \A k \in 1..Len(delays) :
         3 * Nominal(k - 1) <= 4 * delays[k] /\ 4 * delays[k] <= 5 * Nominal(k - 1)

\* ------------------------------------------------------------------------
\* C16: the nominal delays min(base * 2^k, max_backoff) never decrease and
\* never exceed max_backoff; every delay slept lies within a quarter of its
\* nominal value; and the delay slept before a retry is at least the one
\* before, as long as the nominal value of the later one is not capped.
\* ------------------------------------------------------------------------
C16_DelaysWithinJitterOfNominal ==
    /\ \A k \in 1..Len(delays) :
         /\ 3 * Nominal(k - 1) <= 4 * delays[k] /\ 4 * delays[k] <= 5 * Nominal(k - 1)
         /\ Nominal(k - 1) <= Nominal(k) /\ Nominal(k) <= bcap
    /\ \A k \in 1..(Len(delays) - 1) :
         bbase * 2^k <= bcap => delays[k] <= delays[k + 1]

\* A call whose delays grow while the backoff doubles and then fall back
\* under the cap.
C16_Witness ==
    /\ Len(delays) = 3
    /\ bbase * 2 <= bcap /\ bbase * 4 > bcap
    /\ delays[1] < delays[2]
    /\ delays[3] < delays[2]

\* ------------------------------------------------------------------------
\* The extraction task in hand seen from outside
\* ------------------------------------------------------------------------
\* The result of the task in hand is the last record of the output log.
Persisted ==
    /\ eresult # NoResult
    /\ eresult.url = etask.url
    /\ log # <<>> /\ log[Len(log)] = eresult

\* The last RepairTask published is one for the task in hand.
Repaired == repairq # <<>> /\ repairq[Len(repairq)].original_task = etask

\* The deterministic extractor is enabled for the task in hand.
UseBs == is_transfermarkt_url(etask.url) /\ should_use_bs_for_page_type(etask.page_type)

\* The RepairTask process_task publishes is for a failure below the retry limit.
RepairDue == ~eresult.success /\ etask.retry_count < scraper_max_retries

\* ------------------------------------------------------------------------
\* C17 as claimed: an extraction task whose delivery is acknowledged has its
\* result in the output log, and no task is acknowledged with neither a
\* persisted result nor a published RepairTask.
\* ------------------------------------------------------------------------
C17_AckedTaskHasPersistedResult ==
    /\ epc = "acked" => Persisted
    /\ epc = "acked" => (Persisted \/ Repaired)

\* ------------------------------------------------------------------------
\* C18 as claimed: a task whose page fetch failed while its retry count is
\* below max_retries has a RepairTask published for it when process_task
\* returns.
\* ------------------------------------------------------------------------
C18_FetchFailureGoesToRepair ==
    (epc \in {"returned", "acked"} /\ html = 0 /\ etask.retry_count < scraper_max_retries)
        => Repaired

C20_FallbackResultIsGenerative ==
    /\ [][(epc = "bs" /\ epc' # "bs" /\ ~eresult'.success)
            => /\ eresult'.extraction_backend = "bs"
               /\ epc' = IF econf.bs_fallback_to_llm THEN "llm" ELSE "save"]_vars
    /\ [][\A success \in BOOLEAN, error \in LlmErrors :
            (LlmReturns(success, error) /\ UseBs)
               => /\ eresult.extraction_backend = "bs" /\ ~eresult.success
                  /\ econf.bs_fallback_to_llm
                  /\ llm_runs = 0 /\ llm_runs' = 1
                  /\ eresult'.extraction_backend = "bs_fallback_llm"
                  /\ eresult'.success = success
                  /\ eresult'.error = IF success THEN "" ELSE error]_vars
    /\ [](llm_runs <= 1)
    /\ []((UseBs /\ epc = "save")
            => IF eresult.extraction_backend = "bs"
               THEN llm_runs = 0 /\ (eresult.success \/ ~econf.bs_fallback_to_llm)
               ELSE llm_runs = 1 /\ econf.bs_fallback_to_llm
                    /\ eresult.extraction_backend = "bs_fallback_llm")

\* The deterministic extractor failed and the generative one succeeded.
C20_Witness ==
    /\ epc = "save"
    /\ UseBs
    /\ eresult.extraction_backend = "bs_fallback_llm"
    /\ eresult.success
    /\ llm_runs = 1

\* ------------------------------------------------------------------------
\* C27 as claimed: a call whose completion cannot be parsed as JSON ends
\* without another attempt and with a failure recorded against the breaker.
\* ------------------------------------------------------------------------
C27_BadJsonRecordsFailure ==
    [][\A c \in Callers :
         (pc[c] = "call" /\ result' = "json_error" /\ pc'[c] # "call")
            => /\ pc'[c] = "idle"
               /\ failures' = failures + 1
               /\ last_failure_time' = now]_vars

\* ------------------------------------------------------------------------
\* C21: the validator runs only on a successful result of the deterministic
\* extractor, never for a task the generative extractor has run for; its
\* report or its exception leaves success, error and backend of the result
\* as they were, and the result goes on to be saved.
\* ------------------------------------------------------------------------
C21_ValidationIsAdvisory ==
    /\ [][validator_runs' > validator_runs
            => /\ epc = "validate" /\ epc' = "save"
               /\ validator_runs = 0 /\ llm_runs = 0
               /\ eresult.extraction_backend = "bs" /\ eresult.success
               /\ eresult'.success = eresult.success
               /\ eresult'.error = eresult.error
               /\ eresult'.extraction_backend = eresult.extraction_backend]_vars
    /\ [](epc = "validate" => eresult.success /\ eresult.extraction_backend = "bs")
    /\ [](llm_runs > 0 => validator_runs = 0 /\ eresult.validation = "none")
    /\ [](eresult.extraction_backend \in {"llm", "bs_fallback_llm"}
            => validator_runs = 0 /\ eresult.validation = "none")

\* A successful result that the validator wants reviewed is in the log.
C21_Witness ==
    /\ Persisted
    /\ validator_runs = 1
    /\ eresult.validation = "needs_review"
    /\ eresult.success

\* ------------------------------------------------------------------------
\* C26 as claimed: a result with success false has an error text that is
\* not empty.
\* ------------------------------------------------------------------------
C26_FailedResultHasError ==
    (eresult # NoResult /\ ~eresult.success) => eresult.error # ""

\* ------------------------------------------------------------------------
\* C28 as claimed: a task whose generative extraction was refused by the open
\* breaker gets no failed result in the log and no RepairTask.
\* ------------------------------------------------------------------------
C28_BreakerOpenIsDeferred ==
    (eresult # NoResult /\ eresult.error = BreakerOpenError)
        => ~Persisted /\ epc # "publish"

\* The repair handler has a message whose body is a RepairTask.
RepairTaskInHand == rmsg # NoRepairMsg /\ rmsg.valid

TasksFor(url, published) == Cardinality({i \in DOMAIN published : published[i].url = url})

\* ------------------------------------------------------------------------
\* C24: for every link of a fetched page the discovery worker publishes one
\* task, to the extraction queue if the link is a club transfers, player
\* transfers or player profile page and to the discovery queue if not, never
\* to both, with the priority of the page type: critical for a league index,
\* high for league clubs and club transfers, medium for player transfers and
\* club and player profiles, low for the rest.
\* ------------------------------------------------------------------------
C24_OneTaskPerLinkByKind ==
    /\ [](\A i \in DOMAIN to_extraction :
            /\ to_extraction[i].url \in dfound
            /\ to_extraction[i].page_type
                  \in {"club_transfers", "player_transfers", "player_profile"})
    /\ [](\A i \in DOMAIN to_discovery :
            /\ to_discovery[i].url \in dfound
            /\ to_discovery[i].page_type
                  \notin {"club_transfers", "player_transfers", "player_profile"})
    /\ [](\A link \in dfound :
            TasksFor(link, to_extraction) + TasksFor(link, to_discovery)
                = IF link \in dlinks THEN 0 ELSE 1)
    /\ []((dfetched /\ dpc \in {"returned", "acked"}) => dlinks = {})
    /\ [](\A i \in DOMAIN to_extraction :
            to_extraction[i].priority
                = IF to_extraction[i].page_type = "club_transfers" THEN HIGH ELSE MEDIUM)
    /\ [](\A i \in DOMAIN to_discovery :
            to_discovery[i].priority
                = CASE to_discovery[i].page_type = "league_index" -> CRITICAL
                    [] to_discovery[i].page_type = "league_clubs" -> HIGH
                    [] to_discovery[i].page_type = "club_profile" -> MEDIUM
                    [] OTHER -> LOW)
    /\ [][(to_extraction' # to_extraction /\ to_discovery' # to_discovery)
            => (to_extraction' = <<>> /\ to_discovery' = <<>>)]_vars

\* A page with a high-value link and another link has been worked off: one
\* task went to each queue.
C24_Witness ==
    /\ dpc = "acked" /\ dfetched
    /\ Cardinality(dfound) = 2
    /\ Len(to_extraction) = 1 /\ Len(to_discovery) = 1
    /\ to_extraction[1].page_type = "club_transfers"
    /\ to_discovery[1].page_type = "league_clubs"

ShutdownReturned == grace_over /\ spc \in {"stopped", "exited"}

\* ------------------------------------------------------------------------
\* C29 as claimed: on a signal the supervisor has every worker's consumers
\* cancelled and lets the running handlers finish during the grace period;
\* a process is ended by force only when it is still alive after the grace
\* period; after shutdown has returned no worker is running.
\* ------------------------------------------------------------------------
C29_GracefulTwoPhaseShutdown ==
    /\ \A w \in Workers : how[w] \in {"sigterm", "sigkill"} => grace_over
    /\ \A w \in cut : grace_over
    /\ ShutdownReturned => \A w \in consumers : w \in cancelled
    /\ ShutdownReturned => Alive = {}

\* ------------------------------------------------------------------------
\* C30: when the supervisor's connection to the broker fails at startup it
\* exits and no worker process is ever spawned; a worker whose connection
\* fails ends without having started a consumer.
\* ------------------------------------------------------------------------
C30_NoBrokerNoWork ==
    /\ [][(spc = "seed" /\ Supervisor \in refused') => spc' = "exited"]_vars
    /\ [](Supervisor \in refused
            => /\ spc = "exited"
               /\ \A w \in Workers : wstate[w] = "none")
    /\ [][\A w \in Workers :
            (w \in refused' /\ w \notin refused)
                => /\ wstate[w] = "starting"
                   /\ wstate'[w] = "dead"
                   /\ how'[w] = "exit"]_vars
    /\ [](\A w \in Workers : w \in refused => (w \notin consumers /\ wstate[w] = "dead"))

\* One worker's connection failed and it is gone without consumers, while
\* the other worker consumes.
C30_Witness ==
    /\ spc = "wait"
    /\ \E w \in Workers :
          /\ w \in refused /\ wstate[w] = "dead" /\ w \notin consumers
          /\ \E v \in Workers \ {w} : wstate[v] = "consuming"

C32_NoInvocationWhileOpen ==
    [][\A c \in Callers : (pc[c] # "call" /\ pc'[c] = "call") => ~is_open']_vars

\* ------------------------------------------------------------------------
\* C35: the bucket never holds less than nothing nor more than
\* requests_per_minute tokens; the level goes down only in the step that
\* admits a call, by one token, taken from a bucket that holds a whole one
\* after its refill; and every pass through acquire's refill leaves the
\* bucket at the old level plus one unit per elapsed tick, capped at the size
\* of the bucket, less the token of the call it admits.
\* ------------------------------------------------------------------------
C35_TokensWithinBucket ==
    /\ [](0 <= tokens /\ tokens <= BucketCap)
    /\ [][\A c \in Callers : FirstInvoked(c)
            => /\ Min(BucketCap, tokens + (now - last_refill)) >= OneToken
               /\ tokens' = Min(BucketCap, tokens + (now - last_refill)) - OneToken]_vars
    /\ [][tokens' < tokens => \E c \in Callers : FirstInvoked(c)]_vars
    /\ [][tokens' # tokens /\ ~(\E c \in Callers : FirstInvoked(c))
            => /\ tokens' = Min(BucketCap, tokens + (now - last_refill))
               /\ tokens' < OneToken
               /\ last_refill' = now]_vars

\* The bucket was full, idle for longer than it takes to fill, and a call has
\* just been admitted from it: the refill was capped and one token is gone.
C35_Witness ==
    /\ tokens = BucketCap - OneToken
    /\ last_refill = now
    /\ now > 0
    /\ Len(admitted) = 1
    /\ \E c \in Callers : pc[c] = "call"

\* extract_from_page_llm, lines 478-533, as a function of how the call to
\* the inference client ended: the results it can return.  A call that
\* returned data gives a successful result unless the conversion of the data
\* raises; wait_for's TimeoutError becomes the timeout exception; every
\* exception ends in a failed result with the text of the exception.
TimeoutErrorText == "LLM extraction timeout"

LlmExtractionResults(r) ==
    CASE r = "ok" -> {[success |-> TRUE, error |-> ""],
                      [success |-> FALSE, error |-> "error"]}
      [] r = "cancelled" -> {[success |-> FALSE, error |-> TimeoutErrorText]}
      [] r = "breaker_open" -> {[success |-> FALSE, error |-> BreakerOpenError]}
      [] OTHER -> {[success |-> FALSE, error |-> "error"]}

\* ------------------------------------------------------------------------
\* C38: the step in which the extraction worker's timeout cancels a call
\* that is past acquire (running the unit of work, or asleep between two
\* attempts) leaves the breaker's failure count, last failure time and open
\* flag as they were, and the extraction it ends is reported as failed.
\* ------------------------------------------------------------------------
C38_TimeoutLeavesBreakerAlone ==
    [][\A c \in Callers :
          (pc[c] \in {"call", "backoff"} /\ pc'[c] = "idle" /\ result' = "cancelled")
              => /\ failures' = failures
                 /\ last_failure_time' = last_failure_time
                 /\ is_open' = is_open
                 /\ consec' = consec
                 /\ \A r \in LlmExtractionResults(result') :
                        ~r.success /\ r.error = TimeoutErrorText]_vars

\* A call has been cancelled with the breaker one failure short of opening:
\* the breaker is still closed, and no slot is missing, so the cancellation
\* came after acquire.
C38_Witness ==
    /\ result = "cancelled"
    /\ failures = circuit_breaker_threshold - 1
    /\ ~is_open
    /\ last_failure_time > 0
    /\ sem = max_concurrent
    /\ \A c \in Callers : pc[c] = "idle"
    /\ Len(admitted) = 2

\* ------------------------------------------------------------------------
\* C36 as claimed: every published message is eventually acknowledged, also
\* one whose handler raises on every delivery.
\* ------------------------------------------------------------------------
C36_EveryTaskEventuallyAcked ==
    \A m \in 1..MaxMsgs : (m \in Published) ~> (m \in Published /\ mstate[m] = "acked")

\* ------------------------------------------------------------------------
\* C33 as claimed: a task delivered for a locator the process has already
\* fetched is fetched again; its delivery does not end without a GET.
\* ------------------------------------------------------------------------
C33_RedeliveryIsFetchedAgain ==
    (epc \in {"returned", "acked"} /\ etask.url \in evisited) => egets > 0

\* Extraction attempts made for the chain: the deliveries process_task has
\* finished and the one it is at.
Attempts == ndone + (IF epc \in {"idle", "acked", "rejected"} THEN 0 ELSE 1)

\* Nothing of the chain is left: no handler is running, no RepairTask and no
\* retry task waits for delivery.
ChainOver ==
    /\ epc \in {"idle", "acked"}
    /\ rpc \in {"idle", "acked"}
    /\ rin = <<>>
    /\ rserial = Len(repairq)
    /\ ndone \notin DOMAIN extq

\* ------------------------------------------------------------------------
\* C37: for a task that enters the extraction queue with retry_count 0 and
\* with every message delivered once, at most max_retries RepairTasks and at
\* most max_retries retry tasks are published, the k-th retry task carries
\* retry_count k, at most max_retries + 1 extraction attempts are made, and
\* the cycle comes to an end with nothing left to deliver.
\* ------------------------------------------------------------------------
C37_RepairCycleTerminates ==
    /\ [](Len(repairq) <= scraper_max_retries)
    /\ [](Len(extq) <= scraper_max_retries)
    /\ [](Attempts <= scraper_max_retries + 1)
    /\ [](\A k \in DOMAIN extq : extq[k].retry_count = k)
    /\ [](\A k \in DOMAIN repairq : repairq[k].original_task.retry_count = k - 1)
    /\ <>[]ChainOver

\* The last attempt the retry limit allows has failed like the ones before:
\* max_retries RepairTasks were published, none for the last failure.
C37_Witness ==
    /\ ndone = scraper_max_retries + 1
    /\ epc = "acked"
    /\ ~eresult.success /\ eresult.url = etask.url
    /\ Len(repairq) = scraper_max_retries
    /\ Len(log) = scraper_max_retries + 1
    /\ ChainOver

\* ------------------------------------------------------------------------
\* C34 as claimed: of the consumers of one process that call fetch_page for
\* the same locator, at most one is returned the page.
\* ------------------------------------------------------------------------
C34_LocatorFetchedOnce ==
    \A j, k \in Fetchers :
        (j # k /\ furl[j] = furl[k]) => ~(fret[j] = "page" /\ fret[k] = "page")

\* ------------------------------------------------------------------------
\* C39 as claimed: fetch_page issues at most max_retries GETs; a 200 ends it
\* with the page and it returns nothing without one; a 429 on attempt k is
\* followed by a sleep of 30 * (k + 1) seconds and by attempt k + 1 or the
\* end of the loop; a locator enters the visited set only on a 200.
\* ------------------------------------------------------------------------
C39_FetchPageRetries ==
    /\ [](\A k \in Fetchers : fgets[k] <= fmax /\ fattempt[k] <= fmax)
    /\ [][\A k \in Fetchers : (\E body_read \in BOOLEAN : Response200(k, body_read))
            => (fpc'[k] = "done" /\ fret'[k] = "page")]_vars
    /\ [][\A k \in Fetchers : (fret[k] # "page" /\ fret'[k] = "page")
            => \E body_read \in BOOLEAN : Response200(k, body_read)]_vars
    /\ [][\A k \in Fetchers : Response429(k)
            => fsleeps'[k] = Append(fsleeps[k], RateLimitWait * (fattempt[k] + 1))]_vars
    /\ [][\A k \in Fetchers : (fpc[k] = "sleep" /\ fpc'[k] # "sleep")
            => \/ fpc'[k] = "get" /\ fattempt'[k] = fattempt[k] + 1
               \/ fpc'[k] = "done" /\ fret'[k] = "None" /\ fattempt[k] + 1 = fmax]_vars
    /\ [][visited' # visited
            => \E k \in Fetchers, body_read \in BOOLEAN :
                   Response200(k, body_read) /\ visited' = visited \cup {furl[k]}]_vars

\* The caller is inside RateLimiter.acquire, suspended.
InAcquire(c) == pc[c] \in {"sem_wait", "lock_wait", "token_sleep"}

\* ------------------------------------------------------------------------
\* C40: with no caller cancelled, time advancing and every admitted call
\* coming to an end, a caller suspended in acquire (for a slot, for the
\* mutex, or asleep for a token with the mutex held) is eventually admitted;
\* the mutex is held only by a caller asleep for a token, whose sleep is no
\* longer than the time one token takes; and the free slots and the slots of
\* the callers past the semaphore always add up to max_concurrent.
\* ------------------------------------------------------------------------
C40_WaitingCallerIsAdmitted ==
    /\ \A c \in Callers : InAcquire(c) ~> (pc[c] = "call")
    /\ [](lock # NoCaller => pc[lock] = "token_sleep" /\ wake[lock] <= now + OneToken)
    /\ [](sem + Cardinality({c \in Callers : pc[c] \in {"lock_wait", "token_sleep", "call", "backoff"}})
            = max_concurrent)

\* One caller sleeps for a token with the mutex held while another waits for
\* the mutex.
C40_Witness ==
    \E c, d \in Callers :
        /\ pc[c] = "token_sleep" /\ lock = c /\ wake[c] > now
        /\ pc[d] = "lock_wait"

====
